---- MODULE Spec2Model ----
(***************************************************************************)
(* Time-Helper: the report aggregation engine (ReportGenerator), the       *)
(* report model (models.py), the three renderers and the report-generate   *)
(* command that feeds them from per-day timewarrior exports.               *)
(*                                                                         *)
(* Time is counted in minutes since 00:00 UTC of day 0 (Monday             *)
(* 2026-01-12); a date is a day number.  Durations are kept in minutes     *)
(* (get_duration_hours * 60), which is exact; two-decimal hour formatting  *)
(* is modelled by Fmt2.  Floating-point rounding of sums is not modelled.  *)
(***************************************************************************)
EXTENDS Integers, Sequences, FiniteSets, TLC

\* ------------------------------------------------------------------ bounds
MaxEntries == 3
MaxTicks == 1
MaxCalls == 2

\* --------------------------------------------------------------- constants
MinutesPerDay == 1440
DaysPerWeek == 7

\* An instant: minutes since Monday 2026-01-12 00:00 UTC (day 0).
At(day, hour, minute) == day * MinutesPerDay + hour * 60 + minute

\* The clock when the model starts: Wednesday (day 2) 09:00 UTC.
Now0 == At(2, 9, 0)
MaxNow == Now0 + MaxTicks

\* Python's None for Optional fields: an Optional value is <<>> or <<v>>.
None == <<>>
Some(v) == <<v>>

\* ------------------------------------------------------------ state
VARIABLES
    entries,      \* the list a caller hands to ReportGenerator.generate_report
    args,         \* None or Some([start_date, end_date, tags]) of that call
    now,          \* the wall clock in minutes (datetime.now())
    report,       \* None or Some(WeeklyReport): the latest aggregation
    calls,        \* number of generate_report calls made on `entries`
    rendered,     \* None or Some([fmt, call, text]): the latest rendering
    tz,           \* the local timezone's UTC offset in minutes (astimezone())
    timew,        \* timewarrior's intervals, oldest first
    db,           \* the cache: the rows of table time_entries
    week_start,   \* report-generate: the Monday of the requested week
    exported,     \* report-generate: the merged day exports, before dedup
    all_entries,  \* report-generate: the list handed to the generator
    cli_report,   \* report-generate: None or Some(WeeklyReport)
    parsed,       \* the TimeEntry objects built from raw records (from_dict)
    raised,       \* None or Some(name of the exception the last step raised)
    parsed_report, \* None or Some(WeeklyReport) aggregated from `parsed`
    query,        \* None or Some([start_date, end_date, tags, raised,
                  \* result]): the latest Database.get_time_entries call
    proc,         \* None or Some(TimewRun record): the latest
                  \* run_timew_command call, what the timew process did
                  \* and what the call returned or raised
    handled,      \* None or Some([exception, printed, raised]): the latest
                  \* call of a function wrapped by handle_timew_errors
    config_file,  \* the configuration file: None (absent) or
                  \* Some(color_scheme it holds)
    cfg_run,      \* None or Some([op, scheme, raised, exit_code]): the latest
                  \* Config construction or `config set-scheme` command
    undo_log,     \* timewarrior's undo journal: the intervals as they were
                  \* before each recorded operation, oldest first
    undo_run,     \* None or Some(UndoRun record): the latest undo command
    start_run,    \* None or Some(StartRun record): the latest start command
    import_run,   \* None or Some(ImportRun record): the latest import-all
    cmd           \* report-generate: None or Some(Command record): the
                  \* flag, the cache lookup's result (None when there was
                  \* no lookup), the number of `timew export` runs, the
                  \* arguments of the lookup and of the generator call and
                  \* the exception raised, of the latest command

vars == <<entries, args, now, report, calls, rendered, tz, timew, db,
          week_start, exported, all_entries, cli_report, parsed, raised,
          parsed_report, query, cmd, proc, handled, config_file, cfg_run,
          undo_log, undo_run, start_run, import_run>>

reportVars == <<entries, args, report, calls, rendered>>
cliVars == <<timew, db, week_start, exported, all_entries, cli_report, cmd>>
parseVars == <<parsed, raised, parsed_report>>
\* the state of the operations outside report aggregation and report-generate
\* the outcomes of the latest calls of the further commands
runVars == <<undo_log, undo_run, start_run, import_run>>
cmdVars == <<handled, config_file, cfg_run, runVars>>
extVars == <<parseVars, query, proc, cmdVars>>

\* ------------------------------------------------------------ sequences
RECURSIVE SumSeq(_)
SumSeq(s) == IF s = <<>> THEN 0 ELSE s[1] + SumSeq(Tail(s))

RECURSIVE Flatten(_)
Flatten(ss) == IF ss = <<>> THEN <<>> ELSE ss[1] \o Flatten(Tail(ss))

InSeq(x, s) == \E i \in 1..Len(s) : s[i] = x

\* dict.fromkeys / first insertion into a dict: the distinct elements of s
\* in the order of their first occurrence.
RECURSIVE Distinct(_)
Distinct(s) ==
    IF s = <<>> THEN <<>>
    ELSE LET front == Distinct(SubSeq(s, 1, Len(s) - 1))
             last == s[Len(s)]
         IN IF InSeq(last, front) THEN front ELSE Append(front, last)

Indices(s) == [i \in 1..Len(s) |-> i]

IndexOf(s, x) == CHOOSE k \in 1..Len(s) : s[k] = x

\* sorted(xs): ascending sort of a sequence of distinct integers.
RECURSIVE SortAsc(_)
SortAsc(s) ==
    IF s = <<>> THEN <<>>
    ELSE LET k == CHOOSE i \in 1..Len(s) : \A j \in 1..Len(s) : s[i] <= s[j]
         IN <<s[k]>> \o SortAsc(SubSeq(s, 1, k - 1) \o SubSeq(s, k + 1, Len(s)))

\* ------------------------------------------------------------ TimeEntry
Entry(id, start, end, tags, annotation, date) ==
    [id |-> id, start |-> start, end |-> end, tags |-> tags,
     annotation |-> annotation, date |-> date]

\* TimeEntry.parse_start / parse_end: the UTC instant in local time.
parse_start(e, offset) == e.start + offset
parse_end(e, offset) == IF e.end = None THEN None ELSE Some(e.end[1] + offset)

\* .date() of a local datetime.
DateOf(local) == local \div MinutesPerDay

\* Mutant: the end time is ignored and every duration runs up to the clock.
get_duration_hours_IgnoreEnd(e, offset, clock) ==
    (now + offset) - parse_start(e, offset)

\* Mutant: an active timer's duration is taken at the time the program
\* started, not at the time of the call.
get_duration_hours_Frozen(e, offset, clock) ==
    LET start_dt == parse_start(e, offset)
        end_dt == IF parse_end(e, offset) = None THEN Now0 + offset
                  ELSE parse_end(e, offset)[1]
    IN end_dt - start_dt

\* TimeEntry.get_duration_hours, in minutes; clock is the value datetime.now()
\* returns when it is read (only read for an active timer).
get_duration_hours(e, offset, clock) ==
    LET start_dt == parse_start(e, offset)
        end_dt == IF parse_end(e, offset) = None THEN clock + offset
                  ELSE parse_end(e, offset)[1]
    IN end_dt - start_dt

get_primary_tag(e) == IF e.tags # <<>> THEN e.tags[1] ELSE "untagged"

IsActive(e) == e.end = None

\* ------------------------------------------------------------ models.py
TagSummary(tag, total_hours, tag_entries, annotations) ==
    [tag |-> tag, total_hours |-> total_hours, entries |-> tag_entries,
     annotations |-> annotations]

DailyReport(date, tag_summaries, total_hours) ==
    [date |-> date, tag_summaries |-> tag_summaries,
     total_hours |-> total_hours]

\* Mutant: the tags filter is not attached to the report.
WeeklyReport_DropTags(start, daily_reports, weekly_summaries, total, end_date, tags) ==
    [week_start |-> start, daily_reports |-> daily_reports,
     weekly_summaries |-> weekly_summaries, total_hours |-> total,
     end_date |-> end_date, tags |-> None]

WeeklyReport(start, daily_reports, weekly_summaries, total, end_date, tags) ==
    [week_start |-> start, daily_reports |-> daily_reports,
     weekly_summaries |-> weekly_summaries, total_hours |-> total,
     end_date |-> end_date, tags |-> tags]

\* `if entry.annotation`: neither None nor the empty string.
Truthy(annotation) == annotation # None /\ annotation[1] # ""

\* ------------------------------------------------- ReportGenerator
\* entry.date or start_date
\* Mutant: the date is taken from the local start time when it is unset.
EntryDate_FromStart(e, start_date) ==
    IF e.date = None THEN DateOf(e.start) ELSE e.date[1]

EntryDate(e, start_date) == IF e.date = None THEN start_date ELSE e.date[1]

\* The number of datetime.now() reads of one generate_report call: one per
\* active entry in the daily pass and one more in the weekly pass.
ClockReads(es) == 2 * Len(SelectSeq(es, IsActive))

\* daily_data and weekly_data (defaultdicts): a dict is the sequence of its
\* keys in insertion order, a bucket the positions of its entries in input
\* order.
\* Mutant: daily_data is seeded with the first day of the range.
DayKeys_SeedStart(es, start_date) ==
    Distinct(<<start_date>> \o [i \in 1..Len(es) |->
                                   EntryDate(es[i], start_date)])

\* Mutant: dates after the third day of the range get no daily report.
DayKeys_ThreeDays(es, start_date) ==
    SelectSeq(Distinct([i \in 1..Len(es) |-> EntryDate(es[i], start_date)]),
              LAMBDA d : d <= start_date + 2)

DayKeys(es, start_date) ==
    Distinct([i \in 1..Len(es) |-> EntryDate(es[i], start_date)])

\* Mutant: every day gets a bucket for every tag of the input.
DayTagKeys_AllTags(es, start_date, d) ==
    Distinct([k \in 1..Len(es) |-> get_primary_tag(es[k])])

DayTagKeys(es, start_date, d) ==
    LET on_day == SelectSeq(es, LAMBDA e : EntryDate(e, start_date) = d)
    IN Distinct([k \in 1..Len(on_day) |-> get_primary_tag(on_day[k])])

DayBucket(es, start_date, d, t) ==
    SelectSeq(Indices(es), LAMBDA i :
        EntryDate(es[i], start_date) = d /\ get_primary_tag(es[i]) = t)

WeekKeys(es) == Distinct([i \in 1..Len(es) |-> get_primary_tag(es[i])])

\* Mutant: the weekly bucket of a tag takes every entry carrying the tag.
WeekBucket_AnyTag(es, t) ==
    SelectSeq(Indices(es), LAMBDA i :
        get_primary_tag(es[i]) = t \/ InSeq(t, es[i].tags))

WeekBucket(es, t) ==
    SelectSeq(Indices(es), LAMBDA i : get_primary_tag(es[i]) = t)

\* [entry.annotation for entry in tag_entries if entry.annotation]
BucketAnnotations(tag_entries) ==
    LET with_ann == SelectSeq(tag_entries, LAMBDA e : Truthy(e.annotation))
    IN [k \in 1..Len(with_ann) |-> with_ann[k].annotation[1]]

\* generate_report.  clk is the sequence of values datetime.now() returns, in
\* the order of the reads: the daily pass reads it first, bucket by bucket,
\* then the weekly pass.
generate_report(es, start_date, end_date, tags, offset, clk) ==
    LET day_keys == DayKeys(es, start_date)
        week_keys == WeekKeys(es)
        daily_order ==
            Flatten([a \in 1..Len(day_keys) |->
                LET day_tags == DayTagKeys(es, start_date, day_keys[a])
                IN Flatten([b \in 1..Len(day_tags) |->
                       DayBucket(es, start_date, day_keys[a], day_tags[b])])])
        weekly_order ==
            Flatten([a \in 1..Len(week_keys) |-> WeekBucket(es, week_keys[a])])
        active_daily == SelectSeq(daily_order, LAMBDA i : IsActive(es[i]))
        active_weekly == SelectSeq(weekly_order, LAMBDA i : IsActive(es[i]))
        daily_hours(i) ==
            get_duration_hours(es[i], offset,
                IF IsActive(es[i]) THEN clk[IndexOf(active_daily, i)] ELSE 0)
        weekly_hours(i) ==
            get_duration_hours(es[i], offset,
                IF IsActive(es[i])
                THEN clk[Len(active_daily) + IndexOf(active_weekly, i)]
                ELSE 0)
        summary(tag, bucket, hours(_)) ==
            LET tag_entries == [k \in 1..Len(bucket) |-> es[bucket[k]]]
            IN TagSummary(tag,
                   SumSeq([k \in 1..Len(bucket) |-> hours(bucket[k])]),
                   tag_entries, BucketAnnotations(tag_entries))
        daily(d) ==
            LET day_tags == DayTagKeys(es, start_date, d)
                tag_summaries ==
                    [b \in 1..Len(day_tags) |->
                        summary(day_tags[b],
                                DayBucket(es, start_date, d, day_tags[b]),
                                daily_hours)]
            IN DailyReport(d, tag_summaries,
                   SumSeq([b \in 1..Len(tag_summaries) |->
                              tag_summaries[b].total_hours]))
        daily_reports == [a \in 1..Len(day_keys) |-> daily(day_keys[a])]
        weekly_summaries ==
            [a \in 1..Len(week_keys) |->
                summary(week_keys[a], WeekBucket(es, week_keys[a]),
                        weekly_hours)]
        total_weekly_hours ==
            SumSeq([a \in 1..Len(weekly_summaries) |->
                       weekly_summaries[a].total_hours])
    IN WeeklyReport(start_date, daily_reports, weekly_summaries,
                    total_weekly_hours, end_date, tags)

\* ------------------------------------------------------------ formatting
\* f"{hours:.2f}" of a duration kept in minutes: hundredths of an hour,
\* rounded to nearest (m/60 h is never half-way between two hundredths).
Fmt2(minutes) == (10 * minutes + 3) \div 6

DayNames ==
    <<"Monday", "Tuesday", "Wednesday", "Thursday", "Friday", "Saturday",
      "Sunday">>

\* DailyReport.get_day_name: strftime("%A"); day 0 is a Monday.
get_day_name(d) == DayNames[(d % DaysPerWeek) + 1]

DayAbbrevs == <<"Mon", "Tue", "Wed", "Thu", "Fri", "Sat", "Sun">>

\* strftime("%a")
DayAbbrev(d) == DayAbbrevs[(d % DaysPerWeek) + 1]

\* DailyReport.get_formatted_date: strftime("%Y-%m-%d"); day 0 is 2026-01-12
\* and the model's dates stay inside January 2026.
get_formatted_date(d) == <<2026, 1, 12 + d>>

BlankStrings == {"", " ", "  "}

\* TagSummary.get_formatted_annotations
Placeholder(tag) ==
    CASE tag = "work" -> "Work on work related tasks"
      [] tag = "home" -> "Work on home related tasks"
      [] tag = "untagged" -> "Work on untagged related tasks"
      [] OTHER -> "Work on {tag} related tasks"

\* Mutant: the filtered list is returned even when nothing is left in it.
get_formatted_annotations_NoFallback(ts) ==
    IF ts.annotations = <<>> THEN <<Placeholder(ts.tag)>>
    ELSE Distinct(SelectSeq(ts.annotations,
                            LAMBDA ann : ann \notin BlankStrings))

get_formatted_annotations(ts) ==
    IF ts.annotations = <<>> THEN <<Placeholder(ts.tag)>>
    ELSE LET unique_annotations ==
                 Distinct(SelectSeq(ts.annotations,
                                    LAMBDA ann : ann \notin BlankStrings))
         IN IF unique_annotations # <<>> THEN unique_annotations
            ELSE <<Placeholder(ts.tag)>>

\* sorted(xs, key=total_hours, reverse=True): descending by total_hours, and
\* stable, so equal totals keep their order in xs.  Insertion sort from the
\* left: an element is placed after every element that is not smaller.
\* Mutant: ascending sort followed by a reversal, which turns ties around.
RECURSIVE SortByHoursDesc_Unstable(_)
SortByHoursDesc_Unstable(xs) ==
    IF xs = <<>> THEN <<>>
    ELSE LET front == SortByHoursDesc_Unstable(SubSeq(xs, 1, Len(xs) - 1))
             x == xs[Len(xs)]
             ahead == {k \in 1..Len(front) :
                          front[k].total_hours > x.total_hours}
             pos == IF ahead = {} THEN 0
                    ELSE CHOOSE k \in ahead : \A j \in ahead : j <= k
         IN SubSeq(front, 1, pos) \o <<x>> \o SubSeq(front, pos + 1, Len(front))

RECURSIVE SortByHoursDesc(_)
SortByHoursDesc(xs) ==
    IF xs = <<>> THEN <<>>
    ELSE LET front == SortByHoursDesc(SubSeq(xs, 1, Len(xs) - 1))
             x == xs[Len(xs)]
             ahead == {k \in 1..Len(front) :
                          front[k].total_hours >= x.total_hours}
             pos == IF ahead = {} THEN 0
                    ELSE CHOOSE k \in ahead : \A j \in ahead : j <= k
         IN SubSeq(front, 1, pos) \o <<x>> \o SubSeq(front, pos + 1, Len(front))

\* Mutant: the daily reports are returned in insertion order.
get_sorted_daily_reports_Unsorted(r) == r.daily_reports

\* WeeklyReport.get_sorted_daily_reports
get_sorted_daily_reports(r) ==
    LET keys == SortAsc([a \in 1..Len(r.daily_reports) |->
                            r.daily_reports[a].date])
    IN [a \in 1..Len(keys) |->
           r.daily_reports[CHOOSE b \in 1..Len(r.daily_reports) :
                               r.daily_reports[b].date = keys[a]]]

\* WeeklyReport.get_sorted_weekly_summaries
get_sorted_weekly_summaries(r) == SortByHoursDesc(r.weekly_summaries)

\* WeeklyReport.get_week_range_string: the two dates of the label (all the
\* model's dates are in one year, so the start is printed without the year).
\* Mutant: without end_date the label always ends six days after the start.
get_week_range_string_AlwaysWeek(r) ==
    IF r.end_date # None THEN <<r.week_start, r.end_date[1]>>
    ELSE <<r.week_start, r.week_start + 6>>

get_week_range_string(r) ==
    IF r.end_date # None THEN <<r.week_start, r.end_date[1]>>
    ELSE IF r.daily_reports # <<>>
         THEN <<r.week_start,
                get_sorted_daily_reports(r)[Len(r.daily_reports)].date>>
         ELSE <<r.week_start, r.week_start + 6>>

\* ReportGenerator.__get_daily_breakdown: the "Day: N.NN" parts that are
\* joined with ", ", or "No hours".
\* Mutant: the days are scanned in the order the daily reports were built.
_get_daily_breakdown_InsertionOrder(tag, r) ==
    LET days == r.daily_reports
        has == SelectSeq(days, LAMBDA dr :
                   \E b \in 1..Len(dr.tag_summaries) :
                       dr.tag_summaries[b].tag = tag)
        breakdown_parts ==
            [a \in 1..Len(has) |->
                [day |-> DayAbbrev(has[a].date),
                 hours |-> Fmt2((CHOOSE ts \in {has[a].tag_summaries[b] :
                                        b \in 1..Len(has[a].tag_summaries)} :
                                    ts.tag = tag).total_hours)]]
    IN IF breakdown_parts # <<>> THEN breakdown_parts
       ELSE <<[day |-> "No hours", hours |-> 0]>>

_get_daily_breakdown(tag, r) ==
    LET days == get_sorted_daily_reports(r)
        has == SelectSeq(days, LAMBDA dr :
                   \E b \in 1..Len(dr.tag_summaries) :
                       dr.tag_summaries[b].tag = tag)
        breakdown_parts ==
            [a \in 1..Len(has) |->
                [day |-> DayAbbrev(has[a].date),
                 hours |-> Fmt2((CHOOSE ts \in {has[a].tag_summaries[b] :
                                        b \in 1..Len(has[a].tag_summaries)} :
                                    ts.tag = tag).total_hours)]]
    IN IF breakdown_parts # <<>> THEN breakdown_parts
       ELSE <<[day |-> "No hours", hours |-> 0]>>

\* One line of rendered output: the literal text of the line (kind) and the
\* values interpolated into it.
Line(kind, tag, num, texts, dates, parts) ==
    [kind |-> kind, tag |-> tag, num |-> num, texts |-> texts,
     dates |-> dates, parts |-> parts]

Lit(kind) == Line(kind, "", 0, <<>>, <<>>, <<>>)

\* `if report.tags`: a filter list that is neither None nor empty.
HasFilter(r) == r.tags # None /\ r.tags[1] # <<>>

\* The table of the "## Weekly Summary" section of format_as_markdown.
WeeklyTable(r) ==
    LET sorted == get_sorted_weekly_summaries(r)
    IN <<Lit("| Tag | Total Hours | Daily Breakdown |"),
         Lit("| :--- | :--- | :--- |")>>
       \o [k \in 1..Len(sorted) |->
              Line("| tag | total | breakdown |", sorted[k].tag,
                   Fmt2(sorted[k].total_hours), <<>>, <<>>,
                   _get_daily_breakdown(sorted[k].tag, r))]
       \o <<Lit(""),
             Line("**Total Hours: hours**", "", Fmt2(r.total_hours), <<>>,
                  <<>>, <<>>)>>

\* Mutant: the table is written also when there is no weekly summary.
MarkdownWeeklySummary_NoEmptyCase(r) == WeeklyTable(r)

\* format_as_markdown, the body of the "## Weekly Summary" section.
MarkdownWeeklySummary(r) ==
    IF r.weekly_summaries = <<>> THEN <<Lit("*No time tracked this week*")>>
    ELSE WeeklyTable(r)

\* ReportGenerator.format_as_markdown: the lines joined with "\n".
format_as_markdown(r) ==
    LET header ==
            <<Line("# Time Report - ", "", 0, <<>>, get_week_range_string(r),
                   <<>>),
              Lit("")>>
        filter ==
            IF HasFilter(r)
            THEN <<Line("> Filtered by tags: ", "", 0, r.tags[1], <<>>, <<>>),
                   Lit("")>>
            ELSE <<>>
        day(dr) ==
            <<Line("### ", get_day_name(dr.date), 0, <<>>,
                   get_formatted_date(dr.date), <<>>),
              Lit("")>>
            \o (IF dr.tag_summaries = <<>>
                THEN <<Lit("*No time tracked*"), Lit("")>>
                ELSE LET sorted_tags == SortByHoursDesc(dr.tag_summaries)
                     IN <<Lit("| Tag | Hours | Annotations |"),
                          Lit("| :--- | :--- | :--- |")>>
                        \o [k \in 1..Len(sorted_tags) |->
                               Line("| tag | hours | annotations |",
                                    sorted_tags[k].tag,
                                    Fmt2(sorted_tags[k].total_hours),
                                    get_formatted_annotations(sorted_tags[k]),
                                    <<>>, <<>>)]
                        \o <<Lit(""),
                              Line("**Daily Total: hours**", "",
                                   Fmt2(dr.total_hours), <<>>, <<>>, <<>>),
                              Lit("")>>)
        days == get_sorted_daily_reports(r)
    IN header \o filter \o <<Lit("## Daily Reports"), Lit("")>>
       \o Flatten([a \in 1..Len(days) |-> day(days[a])])
       \o <<Lit("## Weekly Summary"), Lit("")>> \o MarkdownWeeklySummary(r)

\* ReportGenerator.format_as_csv: the header row and the data rows
\* (Date, Day, Tag, Hours, Annotations joined with "; ").
format_as_csv(r) ==
    LET days == get_sorted_daily_reports(r)
        rows(dr) ==
            LET sorted_tags == SortByHoursDesc(dr.tag_summaries)
            IN [k \in 1..Len(sorted_tags) |->
                   Line("row", sorted_tags[k].tag,
                        Fmt2(sorted_tags[k].total_hours),
                        get_formatted_annotations(sorted_tags[k]),
                        get_formatted_date(dr.date),
                        <<[day |-> get_day_name(dr.date), hours |-> 0]>>)]
    IN <<Lit("Date,Day,Tag,Hours,Annotations")>>
       \o Flatten([a \in 1..Len(days) |-> rows(days[a])])

\* ReportGenerator.print_weekly_report with _print_daily_report and
\* _print_weekly_summary: the printed lines and table rows, without the rich
\* style markup (the tag colour is hash(tag) % 12 and differs per process).
print_weekly_report(r) ==
    LET header ==
            <<Line("Time Report - ", "", 0, <<>>, get_week_range_string(r),
                   <<>>)>>
            \o (IF HasFilter(r)
                THEN <<Line("Filtered by tags: ", "", 0, r.tags[1], <<>>,
                            <<>>)>>
                ELSE <<>>)
            \o <<Lit("")>>
        day(dr) ==
            <<Line("day header", get_day_name(dr.date), 0, <<>>,
                   get_formatted_date(dr.date), <<>>)>>
            \o (IF dr.tag_summaries = <<>>
                THEN <<Lit("  No time tracked")>>
                ELSE LET sorted_tags == SortByHoursDesc(dr.tag_summaries)
                         lines(ts) ==
                             LET annotations == get_formatted_annotations(ts)
                             IN <<Line("  tag: hours", ts.tag,
                                       Fmt2(ts.total_hours), <<>>, <<>>,
                                       <<>>)>>
                                \o [n \in 1..Len(annotations) |->
                                       Line("    annotation", "", 0,
                                            <<annotations[n]>>, <<>>, <<>>)]
                     IN Flatten([k \in 1..Len(sorted_tags) |->
                                    lines(sorted_tags[k])])
                        \o <<Line("Daily Total: hours", "",
                                   Fmt2(dr.total_hours), <<>>, <<>>, <<>>)>>)
            \o <<Lit("")>>
        days == get_sorted_daily_reports(r)
        weekly ==
            <<Lit("Weekly Summary:")>>
            \o (IF r.weekly_summaries = <<>>
                THEN <<Lit("  No time tracked this week")>>
                ELSE LET sorted == get_sorted_weekly_summaries(r)
                     IN [k \in 1..Len(sorted) |->
                            Line("table row", sorted[k].tag,
                                 Fmt2(sorted[k].total_hours), <<>>, <<>>,
                                 _get_daily_breakdown(sorted[k].tag, r))]
                        \o <<Line("Total Hours: hours", "",
                                   Fmt2(r.total_hours), <<>>, <<>>, <<>>)>>)
    IN header \o Flatten([a \in 1..Len(days) |-> day(days[a])]) \o weekly

Formats == {"markdown", "csv", "table"}

Render(fmt, r) ==
    CASE fmt = "markdown" -> format_as_markdown(r)
      [] fmt = "csv" -> format_as_csv(r)
      [] fmt = "table" -> print_weekly_report(r)

\* --------------------------------------------- cli/report_commands.py
\* _remove_duplicate_entries: keeps an entry when its id is not in seen_ids.
\* Mutant: seen_ids is never consulted.
_remove_duplicate_entries_KeepAll(es) == es

\* Mutant: a later entry replaces the kept entry of the same id.
RECURSIVE _remove_duplicate_entries_KeepLast(_)
_remove_duplicate_entries_KeepLast(es) ==
    IF es = <<>> THEN <<>>
    ELSE LET front == _remove_duplicate_entries_KeepLast(
                          SubSeq(es, 1, Len(es) - 1))
             entry == es[Len(es)]
         IN IF \E k \in 1..Len(front) : front[k].id = entry.id
            THEN [k \in 1..Len(front) |->
                     IF front[k].id = entry.id THEN entry ELSE front[k]]
            ELSE Append(front, entry)

RECURSIVE _remove_duplicate_entries(_)
_remove_duplicate_entries(es) ==
    IF es = <<>> THEN <<>>
    ELSE LET unique_entries_ == _remove_duplicate_entries(
                                    SubSeq(es, 1, Len(es) - 1))
             entry == es[Len(es)]
             seen_ids == {unique_entries_[k].id :
                             k \in 1..Len(unique_entries_)}
         IN IF entry.id \notin seen_ids THEN Append(unique_entries_, entry)
            ELSE unique_entries_

\* ------------------------------------------------------------ inputs
\* Entries a caller can hand to generate_report: ended and active, tagged,
\* multi-tagged and untagged, with and without annotation, with a date set
\* by the import step or unset; entry 4 is entry 1 as a second day's export
\* returned it, entry 7 is dated after the requested range.
EntryPool ==
    { Entry(1, At(0, 9, 0), Some(At(0, 10, 0)), <<"work">>, Some("A"),
            Some(0)),
      Entry(2, At(0, 10, 0), Some(At(0, 11, 0)), <<"home">>, None, Some(0)),
      Entry(3, At(1, 9, 0), Some(At(1, 10, 0)), <<"home", "work">>,
            Some(" "), Some(1)),
      Entry(1, At(0, 9, 0), Some(At(0, 10, 0)), <<"work">>, Some("A"),
            Some(1)),
      Entry(4, At(1, 11, 0), Some(At(1, 11, 20)), <<>>, Some(""), None),
      Entry(5, At(2, 8, 0), None, <<"work">>, Some("B"), Some(2)),
      Entry(6, At(3, 9, 0), Some(At(3, 9, 20)), <<>>, Some("A"),
            Some(3)) }

\* (start_date, end_date) arguments: a 3-day range, and the same start with
\* no end_date (WeeklyReport.end_date is Optional).
Ranges == {<<0, Some(2)>>, <<0, None>>}

\* tags arguments
TagFilters == {None, Some(<<"work">>)}

TzOffsets == {0, 120}

\* The values successive datetime.now() reads can return from time `from`
\* on: n readings, each at least the one before.
RECURSIVE ClockSeqs(_, _)
ClockSeqs(from, n) ==
    IF n = 0 THEN {<<>>}
    ELSE UNION {{<<t>> \o s : s \in ClockSeqs(t, n - 1)} : t \in from..MaxNow}

\* ------------------------------------------------------------ timewarrior
\* A tracked interval as timewarrior keeps it (its id is its position
\* counted from the newest interval, @1).
Interval(start, end, tags, annotation) ==
    [start |-> start, end |-> end, tags |-> tags, annotation |-> annotation]

\* Intervals a user can have tracked, oldest first.  With offset 0 the first
\* starts on the Sunday before week 0 and ends on its Monday, the third
\* runs over the midnight from Monday to Tuesday; the last is still running.
TimewPool ==
    <<Interval(At(-1, 22, 30), Some(At(0, 0, 30)), <<"work">>, Some("A")),
      Interval(At(0, 9, 0), Some(At(0, 10, 0)), <<"home">>, None),
      Interval(At(0, 21, 0), Some(At(1, 1, 0)), <<"work", "home">>, None),
      Interval(At(2, 8, 0), None, <<"work">>, Some("B"))>>

\* The Mondays a report can be requested for.
WeekStarts == {-7, 0}

\* `timew export <date>` as parse_timew_export reads it: the intervals that
\* intersect the local day, oldest first, each made a TimeEntry by from_dict
\* (no date yet).  A running interval lasts until `clock`.
TimewExport(tw, day, offset, clock) ==
    LET hit == SelectSeq(Indices(tw), LAMBDA k :
                   /\ tw[k].start + offset < (day + 1) * MinutesPerDay
                   /\ (IF tw[k].end = None THEN clock ELSE tw[k].end[1])
                         + offset > day * MinutesPerDay)
    IN [n \in 1..Len(hit) |->
           Entry(Len(tw) - hit[n] + 1, tw[hit[n]].start, tw[hit[n]].end,
                 tw[hit[n]].tags, tw[hit[n]].annotation, None)]

\* _export_day_data: every exported entry gets day_date as its date.
_export_day_data(tw, day_date, offset, clock) ==
    LET exported_ == TimewExport(tw, day_date, offset, clock)
    IN [n \in 1..Len(exported_) |->
           [exported_[n] EXCEPT !.date = Some(day_date)]]

\* WeekUtils.get_week_dates
get_week_dates(monday) == [i \in 1..DaysPerWeek |-> monday + (i - 1)]

\* ------------------------------------------------------------ database.py
Row(e, entry_date, hours) ==
    [id |-> e.id, start_time |-> e.start, end_time |-> e.end,
     tag |-> get_primary_tag(e), annotation |-> e.annotation,
     date |-> entry_date, hours |-> hours]

\* Database.store_time_entries: INSERT OR REPLACE on the key (id, date);
\* hours(k) is get_duration_hours of the k-th entry.
RECURSIVE store_time_entries(_, _, _, _)
store_time_entries(rows, es, entry_date, hours) ==
    IF es = <<>> THEN rows
    ELSE LET before == store_time_entries(rows, SubSeq(es, 1, Len(es) - 1),
                                          entry_date, hours)
             e == es[Len(es)]
         IN {r \in before : ~(r.id = e.id /\ r.date = entry_date)}
            \cup {Row(e, entry_date, hours[Len(es)])}

\* ORDER BY date, start_time: every order of the rows that respects it.
RowBefore(r, q) ==
    r.date < q.date \/ (r.date = q.date /\ r.start_time < q.start_time)

RECURSIVE OrderedRows(_)
OrderedRows(rows) ==
    IF rows = {} THEN {<<>>}
    ELSE UNION {{<<r>> \o rest : rest \in OrderedRows(rows \ {r})} :
                   r \in {m \in rows : \A q \in rows : ~RowBefore(q, m)}}

\* Database.get_time_entries: the possible result lists.
get_time_entries(rows, start_date, end_date) ==
    LET found == {r \in rows : start_date <= r.date /\ r.date <= end_date}
    IN {[n \in 1..Len(ordered) |->
            Entry(ordered[n].id, ordered[n].start_time, ordered[n].end_time,
                  <<ordered[n].tag>>, ordered[n].annotation,
                  Some(ordered[n].date))] : ordered \in OrderedRows(found)}

\* ------------------------------------------------------- raw records
\* A timestamp string of a raw record: the format it is written in and the
\* instant it denotes.
TimewFormat == "%Y%m%dT%H%M%SZ"

RawTime(fmt, minutes) == [fmt |-> fmt, minutes |-> minutes]

\* datetime.strptime(s, "%Y%m%dT%H%M%SZ"): the instant, or None where
\* strptime raises ValueError.
strptime(raw) == IF raw.fmt = TimewFormat THEN Some(raw.minutes) ELSE None

\* str.lower on the tags of the records
lower(tag) ==
    CASE tag = "Work" -> "work"
      [] tag = "HOME" -> "home"
      [] OTHER -> tag

\* A raw record (a dict of the export's JSON); an absent key is None.
Record(id, start, end, tags, annotation) ==
    [id |-> id, start |-> start, end |-> end, tags |-> tags,
     annotation |-> annotation]

RecordPool ==
    { Record(Some(1), Some(RawTime(TimewFormat, At(0, 9, 0))),
             Some(RawTime(TimewFormat, At(0, 10, 0))), Some(<<"Work">>),
             Some("A")),
      Record(Some(2), Some(RawTime(TimewFormat, At(1, 9, 0))),
             Some(RawTime(TimewFormat, At(1, 9, 30))), None, None),
      Record(Some(3), Some(RawTime("%Y-%m-%dT%H:%M:%SZ", At(0, 12, 0))),
             Some(RawTime(TimewFormat, At(0, 13, 0))), Some(<<"HOME">>),
             None),
      Record(Some(4), Some(RawTime("yesterday", 0)),
             Some(RawTime(TimewFormat, At(0, 15, 0))), Some(<<"work">>),
             None),
      Record(Some(5), None, Some(RawTime(TimewFormat, At(0, 16, 0))),
             Some(<<"work">>), None),
      Record(None, Some(RawTime(TimewFormat, At(0, 17, 0))),
             Some(RawTime(TimewFormat, At(0, 18, 0))), Some(<<"work">>),
             None) }

\* TimeEntry.from_dict: cls(**data).  `id` and `start` are required fields;
\* `start: str` takes any string as it is; tags are lower-cased.
from_dict(data) ==
    IF data.id = None \/ data.start = None
    THEN [error |-> Some("ValidationError"), entry |-> None]
    ELSE [error |-> None,
          entry |-> Some([id |-> data.id[1], start |-> data.start[1],
                          end |-> data.end,
                          tags |-> IF data.tags = None THEN <<>>
                                   ELSE [k \in 1..Len(data.tags[1]) |->
                                            lower(data.tags[1][k])],
                          annotation |-> data.annotation, date |-> None])]

\* parse_start / parse_end of a TimeEntry built from a record raise
\* ValueError on a string strptime does not accept.
WellFormed(te) ==
    /\ strptime(te.start) # None
    /\ te.end # None => strptime(te.end[1]) # None

\* The entry with its timestamps read (the strings being well-formed).
ToEntry(te) ==
    Entry(te.id, strptime(te.start)[1],
          IF te.end = None THEN None ELSE strptime(te.end[1]),
          te.tags, te.annotation, te.date)

\* ------------------------------------------------------------ actions
\* A caller of the report generator collects one more entry.
AddEntry(e) ==
    /\ report = None
    /\ Len(entries) < MaxEntries
    /\ entries' = Append(entries, e)
    /\ UNCHANGED <<args, now, report, calls, rendered, tz>>
    /\ UNCHANGED cliVars
    /\ UNCHANGED extVars

\* The caller removes duplicates before aggregating.
RemoveDuplicates ==
    /\ report = None
    /\ entries' = _remove_duplicate_entries(entries)
    /\ UNCHANGED <<args, now, report, calls, rendered, tz>>
    /\ UNCHANGED cliVars
    /\ UNCHANGED extVars

\* One call of ReportGenerator.generate_report on `entries`; a repeated call
\* passes the same arguments.
GenerateReport ==
    /\ calls < MaxCalls
    /\ \E range \in Ranges, tags \in TagFilters,
          clk \in ClockSeqs(now, ClockReads(entries)) :
          LET a == [start_date |-> range[1], end_date |-> range[2],
                    tags |-> tags]
          IN /\ args # None => a = args[1]
             /\ args' = Some(a)
             /\ report' = Some(generate_report(entries, a.start_date,
                                   a.end_date, a.tags, tz, clk))
             /\ now' = IF clk = <<>> THEN now ELSE clk[Len(clk)]
    /\ calls' = calls + 1
    /\ UNCHANGED <<entries, rendered, tz>>
    /\ UNCHANGED cliVars
    /\ UNCHANGED extVars

\* One renderer runs on the latest report.
RenderReport(fmt) ==
    /\ report # None
    /\ rendered' = Some([fmt |-> fmt, call |-> calls,
                         text |-> Render(fmt, report[1])])
    /\ UNCHANGED <<entries, args, now, report, calls, tz>>
    /\ UNCHANGED cliVars
    /\ UNCHANGED extVars

\* Time passes.
Tick ==
    /\ now < MaxNow
    /\ now' = now + 1
    /\ UNCHANGED <<tz>>
    /\ UNCHANGED reportVars
    /\ UNCHANGED cliVars
    /\ UNCHANGED extVars

\* timewarrior records one more interval (timew start / stop / track).
TimewTrack(k) ==
    /\ IF timew = <<>> THEN TRUE
       ELSE /\ timew[Len(timew)].end # None
            /\ \E j \in 1..(k - 1) : TimewPool[j] = timew[Len(timew)]
    /\ TimewPool[k].start <= now
    /\ timew' = Append(timew, TimewPool[k])
    /\ UNCHANGED <<now, tz, db, week_start, exported, all_entries, cli_report,
                   cmd>>
    /\ UNCHANGED reportVars
    /\ UNCHANGED extVars

\* The entries of es grouped by their date, in the order the dates are met
\* (entries_by_date).
EntriesByDate(es, offset) ==
    LET date_of(e) == IF e.date # None THEN e.date[1]
                      ELSE DateOf(parse_start(e, offset))
        keys == Distinct([n \in 1..Len(es) |-> date_of(es[n])])
    IN [a \in 1..Len(keys) |->
           [date |-> keys[a],
            entries |-> SelectSeq(es, LAMBDA e : date_of(e) = keys[a])]]

\* The rows after report-generate stored every group; clk are the clock
\* readings of the stored entries, in storing order.
RECURSIVE StoreGroups(_, _, _, _)
StoreGroups(rows, groups, offset, clk) ==
    IF groups = <<>> THEN rows
    ELSE LET g == groups[1]
             active == SelectSeq(Indices(g.entries),
                                 LAMBDA n : IsActive(g.entries[n]))
             hours == [n \in 1..Len(g.entries) |->
                          get_duration_hours(g.entries[n], offset,
                              IF IsActive(g.entries[n])
                              THEN clk[IndexOf(active, n)] ELSE 0)]
         IN StoreGroups(store_time_entries(rows, g.entries, g.date, hours),
                        Tail(groups), offset,
                        SubSeq(clk, Len(active) + 1, Len(clk)))

\* What one report-generate command did: the range and tags it was asked
\* for, its use_cache flag, the cache lookup's result, the number of
\* `timew export` runs, the (start_date, end_date, tags) passed to
\* Database.get_time_entries and to ReportGenerator.generate_report (None
\* where the call was not made) and the exception it raised.
Command(request, use_cache, cached, exports, lookup, generator, exception) ==
    [request |-> request, use_cache |-> use_cache, cached |-> cached,
     exports |-> exports, lookup |-> lookup, generator |-> generator,
     raised |-> exception]

\* Mutant: the cache lookup's result is not used.
LoadFromCache_Ignored(use_cache, cached_entries) == <<>>

\* report-generate's cache step: all_entries after it, the cached entries
\* when the cache is enabled and the lookup returned any, else empty.
LoadFromCache(use_cache, cached_entries) ==
    IF use_cache /\ cached_entries # <<>> THEN cached_entries ELSE <<>>

\* report-generate (cli/report_commands.py generate_report) for the week
\* starting at `monday`: cache lookup, else seven day exports, duplicate
\* removal and the cache store; then ReportGenerator.generate_weekly_report
\* and print_weekly_report, whose lines are print_weekly_report(cli_report).
ReportGenerate(use_cache, monday) ==
    LET week_dates == get_week_dates(monday)
        cached_lists == IF use_cache
                        THEN get_time_entries(db, monday, monday + 6)
                        ELSE {<<>>}
    IN \E cached_entries \in cached_lists :
       LET loaded == LoadFromCache(use_cache, cached_entries)
           exports == loaded = <<>>
           merged == IF exports
                     THEN Flatten([i \in 1..Len(week_dates) |->
                              _export_day_data(timew, week_dates[i], tz, now)])
                     ELSE <<>>
           final == IF exports THEN _remove_duplicate_entries(merged)
                    ELSE loaded
           stores == exports /\ use_cache
           store_reads == IF stores THEN Len(SelectSeq(final, IsActive)) ELSE 0
           report_reads == ClockReads(final)
       IN \E clk \in ClockSeqs(now, store_reads + report_reads) :
             /\ week_start' = monday
             /\ cmd' = Some(Command(
                            [start_date |-> monday, end_date |-> monday + 6,
                             tags |-> None],
                            use_cache,
                            IF use_cache THEN Some(cached_entries) ELSE None,
                            IF exports THEN Len(week_dates) ELSE 0,
                            IF use_cache
                            THEN Some(<<monday, monday + 6, None>>) ELSE None,
                            IF final = <<>> THEN None
                            ELSE Some(<<monday, monday + 6, None>>),
                            None))
             /\ exported' = merged
             /\ all_entries' = final
             /\ db' = IF stores
                      THEN StoreGroups(db, EntriesByDate(final, tz), tz,
                                       SubSeq(clk, 1, store_reads))
                      ELSE db
             /\ cli_report' =
                   IF final = <<>> THEN None
                   ELSE Some(generate_report(final, monday, Some(monday + 6),
                                 None, tz,
                                 SubSeq(clk, store_reads + 1, Len(clk))))
             /\ now' = IF clk = <<>> THEN now ELSE clk[Len(clk)]
             /\ UNCHANGED <<timew, tz>>
             /\ UNCHANGED reportVars
             /\ UNCHANGED extVars

\* report-generate called with the keywords start_date, end_date and tags.
\* The command's parameters are (week_offset, year, date_str, use_cache), so
\* the call raises TypeError before the body runs; handle_timew_errors
\* catches CalledProcessError and FileNotFoundError only.
ReportGenerateRange(start_date, end_date, tags, use_cache) ==
    /\ cmd' = Some(Command([start_date |-> start_date, end_date |-> end_date,
                            tags |-> tags],
                           use_cache, None, 0, None, None,
                           Some("TypeError")))
    /\ UNCHANGED <<timew, db, week_start, exported, all_entries, cli_report,
                   now, tz>>
    /\ UNCHANGED reportVars
    /\ UNCHANGED extVars

InitCliIdle ==
    /\ timew = <<>>
    /\ db = {}
    /\ week_start = 0
    /\ exported = <<>>
    /\ all_entries = <<>>
    /\ cli_report = None
    /\ cmd = None

InitReportIdle ==
    /\ entries = <<>>
    /\ args = None
    /\ report = None
    /\ calls = 0
    /\ rendered = None

InitParseIdle ==
    /\ parsed = <<>>
    /\ raised = None
    /\ parsed_report = None

InitCmdIdle ==
    /\ handled = None
    /\ config_file = None
    /\ cfg_run = None
    /\ undo_log = <<>>
    /\ undo_run = None
    /\ start_run = None
    /\ import_run = None

InitExtIdle == InitParseIdle /\ query = None /\ proc = None /\ InitCmdIdle

InitReport ==
    /\ InitReportIdle
    /\ now = Now0
    /\ tz = 120
    /\ InitCliIdle
    /\ InitExtIdle

NextReport ==
    \/ \E e \in EntryPool : AddEntry(e)
    \/ RemoveDuplicates
    \/ GenerateReport
    \/ \E fmt \in Formats : RenderReport(fmt)
    \/ Tick

SpecReport == InitReport /\ [][NextReport]_vars

InitCli ==
    /\ InitReportIdle
    /\ now = Now0
    /\ tz \in TzOffsets
    /\ InitCliIdle
    /\ InitExtIdle

NextCli ==
    \/ \E k \in 1..Len(TimewPool) : TimewTrack(k)
    \/ \E use_cache \in BOOLEAN, monday \in WeekStarts :
          ReportGenerate(use_cache, monday)
    \/ Tick

SpecCli == InitCli /\ [][NextCli]_vars

\* The ranges asked for with the keywords: three days, and a single day.
CommandRanges == {<<0, 2>>, <<0, 0>>}

\* The command line with callers that also use the range keywords.
NextCliRange ==
    \/ NextCli
    \/ \E range \in CommandRanges, tags \in TagFilters, use_cache \in BOOLEAN :
          ReportGenerateRange(range[1], range[2], tags, use_cache)

SpecCliRange == InitCli /\ [][NextCliRange]_vars

\* parse_timew_export builds one more TimeEntry from a raw record.
FromDict(data) ==
    /\ parsed_report = None
    /\ raised # Some("ValueError")
    /\ Len(parsed) < MaxEntries
    /\ LET r == from_dict(data)
       IN /\ raised' = r.error
          /\ parsed' = IF r.error = None THEN Append(parsed, r.entry[1])
                       ELSE parsed
    /\ UNCHANGED <<parsed_report, now, tz, query, proc>>
    /\ UNCHANGED cmdVars
    /\ UNCHANGED reportVars
    /\ UNCHANGED cliVars

\* ReportGenerator.generate_report on the entries built from records: the
\* daily pass calls get_duration_hours on every entry, which raises
\* ValueError at the first timestamp strptime does not accept.
AggregateParsed ==
    /\ parsed_report = None
    /\ raised # Some("ValueError")
    /\ IF \A n \in 1..Len(parsed) : WellFormed(parsed[n])
       THEN /\ raised' = None
            /\ parsed_report' =
                  Some(generate_report([n \in 1..Len(parsed) |->
                                           ToEntry(parsed[n])],
                                       0, Some(6), None, tz, <<>>))
       ELSE /\ raised' = Some("ValueError")
            /\ parsed_report' = None
    /\ UNCHANGED <<parsed, now, tz, query, proc>>
    /\ UNCHANGED cmdVars
    /\ UNCHANGED reportVars
    /\ UNCHANGED cliVars

InitParse ==
    /\ InitReportIdle
    /\ now = Now0
    /\ tz \in TzOffsets
    /\ InitCliIdle
    /\ InitExtIdle

NextParse ==
    \/ \E data \in RecordPool : FromDict(data)
    \/ AggregateParsed

SpecParse == InitParse /\ [][NextParse]_vars

\* ------------------------------------------------------------ cache queries
\* The dates entries are stored under and the ranges that are queried.
StoreDates == {0, 1}
QueryRanges == {<<0, 0>>, <<0, 1>>, <<1, 1>>}

\* The `tags` keyword of a get_time_entries call: None when the call does not
\* pass it, else Some(value), the value being None or Some(list of tags).
TagsKeywords ==
    {None, Some(None), Some(Some(<<"work">>)), Some(Some(<<"meeting">>))}

\* Database.store_time_entries([e], entry_date)
DbStore(e, entry_date) ==
    /\ Cardinality(db) < MaxEntries
    /\ db' = store_time_entries(db, <<e>>, entry_date,
                                <<get_duration_hours(e, tz, now)>>)
    /\ UNCHANGED <<now, tz, timew, week_start, exported, all_entries,
                   cli_report, query, cmd, proc>>
    /\ UNCHANGED cmdVars
    /\ UNCHANGED reportVars
    /\ UNCHANGED parseVars

\* A call Database.get_time_entries(start_date, end_date[, tags=...]).  The
\* method's parameters are (self, start_date, end_date): a call that passes
\* the keyword `tags` raises TypeError before the body runs.
DbQuery(start_date, end_date, tags_kw) ==
    /\ \E result \in IF tags_kw # None THEN {None}
                     ELSE {Some(l) :
                              l \in get_time_entries(db, start_date, end_date)} :
          query' = Some([start_date |-> start_date, end_date |-> end_date,
                         tags |-> tags_kw,
                         raised |-> IF tags_kw # None THEN Some("TypeError")
                                    ELSE None,
                         result |-> result])
    /\ UNCHANGED <<now, tz, proc>>
    /\ UNCHANGED cmdVars
    /\ UNCHANGED reportVars
    /\ UNCHANGED cliVars
    /\ UNCHANGED parseVars

InitDb ==
    /\ InitReportIdle
    /\ now = Now0
    /\ tz = 0
    /\ InitCliIdle
    /\ InitExtIdle

NextDb ==
    \/ \E e \in EntryPool, entry_date \in StoreDates : DbStore(e, entry_date)
    \/ \E range \in QueryRanges, tags_kw \in TagsKeywords :
          DbQuery(range[1], range[2], tags_kw)

SpecDb == InitDb /\ [][NextDb]_vars

\* ------------------------------------------------------ run_timew_command
\* An exception object: its class, str(exception), the fields of a
\* CalledProcessError and the exception it carries as original_error.
Exception(type, message, returncode, output, stderr, original_error) ==
    [type |-> type, message |-> message, returncode |-> returncode,
     output |-> output, stderr |-> stderr, original_error |-> original_error]

\* subprocess.CalledProcessError(returncode, cmd, output, stderr)
CalledProcessError(returncode, output, stderr) ==
    Exception("CalledProcessError", "Command returned non-zero exit status",
              returncode, output, stderr, None)

\* subprocess.CompletedProcess
CompletedProcess(returncode, stdout, stderr) ==
    [returncode |-> returncode, stdout |-> stdout, stderr |-> stderr]

\* The timew subcommands run, and what a timew process exits with and writes.
TimewArgs == {"export", "start", "stop", "undo"}
ReturnCodes == {0, 1, 255}
Stdouts == {"", "[]", "Error in stdout"}
Stderrs == {"", "No data found", "Nothing to undo",
            "There is no active time tracking"}

\* What one run_timew_command call did.
TimewRun(cmd_args, check, installed, returncode, stdout, stderr, result, exc) ==
    [args |-> cmd_args, check |-> check, installed |-> installed,
     returncode |-> returncode, stdout |-> stdout, stderr |-> stderr,
     result |-> result, raised |-> exc]

\* run_timew_command(args, check): subprocess.run raises FileNotFoundError
\* when there is no timew and CalledProcessError on a non-zero exit with
\* check set; both are logged and raised again as they are.
run_timew_command(cmd_args, check, installed, returncode, stdout, stderr) ==
    IF ~installed
    THEN TimewRun(cmd_args, check, installed, returncode, stdout, stderr,
                  None,
                  Some(Exception("FileNotFoundError", "No such file", 0, "",
                                 "", None)))
    ELSE IF check /\ returncode # 0
    THEN TimewRun(cmd_args, check, installed, returncode, stdout, stderr,
                  None, Some(CalledProcessError(returncode, stdout, stderr)))
    ELSE TimewRun(cmd_args, check, installed, returncode, stdout, stderr,
                  Some(CompletedProcess(returncode, stdout, stderr)), None)

\* One call of run_timew_command; the process's exit code and output are
\* the environment's.
RunTimewCommand(cmd_args, check, installed) ==
    /\ \E returncode \in IF installed THEN ReturnCodes ELSE {0},
          stdout \in IF installed THEN Stdouts ELSE {""},
          stderr \in IF installed THEN Stderrs ELSE {""} :
          proc' = Some(run_timew_command(cmd_args, check, installed,
                                         returncode, stdout, stderr))
    /\ UNCHANGED <<now, tz, query>>
    /\ UNCHANGED cmdVars
    /\ UNCHANGED reportVars
    /\ UNCHANGED cliVars
    /\ UNCHANGED parseVars

\* ------------------------------------------------------ handle_timew_errors
\* TimewarriorError(message, original_error)
TimewarriorError(message, original_error) ==
    Exception("TimewarriorError", message, 0, "", "", original_error)

\* The error texts a failing command comes with: the recognised ones, one of
\* them inside a longer text, and an unknown one.
ErrorTexts ==
    {"No data found", "There is no active time tracking", "Nothing to undo",
     "You cannot overlap intervals",
     "Error: Nothing to undo. Some unknown error", "Some unknown error"}

\* `sub in text` for the texts of the model.
Contains(text, sub) ==
    \/ text = sub
    \/ text = "Time tracking cannot be set in the future."
         /\ sub = "cannot be set in the future"
    \/ text = "Error: Nothing to undo. Some unknown error"
         /\ sub \in {"Nothing to undo", "Some unknown error"}

\* What a wrapped function can raise.
RaisedByWrapped ==
    {CalledProcessError(1, "", text) : text \in ErrorTexts}
    \cup {TimewarriorError(text, None) : text \in ErrorTexts}
    \cup {Exception("FileNotFoundError", "No such file", 0, "", "", None),
          Exception("ValueError", "Crash!", 0, "", "", None)}

\* The rprint lines of the `except CalledProcessError` branch for e.stderr.
PrintedFor(stderr) ==
    IF Contains(stderr, "No data found")
    THEN <<"[yellow]No data found for the specified timespan[/yellow]">>
    ELSE IF Contains(stderr, "There is no active time tracking")
    THEN <<"[yellow]No active timer to stop[/yellow]">>
    ELSE IF Contains(stderr, "Nothing to undo")
    THEN <<"[yellow]Nothing to undo - no recent operations found[/yellow]">>
    ELSE IF Contains(stderr, "You cannot overlap intervals")
    THEN <<"[yellow]Time overlap detected[/yellow]",
           "[dim]Hint: Use 'timew stop' ...[/dim]">>
    ELSE <<"[red]Error: {e.stderr}[/red]">>

\* handle_timew_errors' wrapper around a function that returns (None) or
\* raises an exception: CalledProcessError and FileNotFoundError are caught,
\* reported with rprint and raised again; any other exception passes through
\* the wrapper untouched.
handle_timew_errors(exception) ==
    IF exception = None
    THEN [exception |-> None, printed |-> <<>>, raised |-> None]
    ELSE IF exception[1].type = "CalledProcessError"
    THEN [exception |-> exception,
          printed |-> PrintedFor(exception[1].stderr), raised |-> exception]
    ELSE IF exception[1].type = "FileNotFoundError"
    THEN [exception |-> exception,
          printed |-> <<"[red]Error: 'timew' command not found.[/red]">>,
          raised |-> exception]
    ELSE [exception |-> exception, printed |-> <<>>, raised |-> exception]

\* One call of a wrapped function.
CallWrapped(exception) ==
    /\ handled' = Some(handle_timew_errors(exception))
    /\ UNCHANGED <<now, tz, query, proc, config_file, cfg_run>>
    /\ UNCHANGED runVars
    /\ UNCHANGED reportVars
    /\ UNCHANGED cliVars
    /\ UNCHANGED parseVars

InitTimew ==
    /\ InitReportIdle
    /\ now = Now0
    /\ tz = 0
    /\ InitCliIdle
    /\ InitExtIdle

NextTimew ==
    \/ \E cmd_args \in TimewArgs, check \in BOOLEAN, installed \in BOOLEAN :
          RunTimewCommand(cmd_args, check, installed)
    \/ \E exception \in {None} \cup {Some(x) : x \in RaisedByWrapped} :
          CallWrapped(exception)

SpecTimew == InitTimew /\ [][NextTimew]_vars

\* ------------------------------------------------------------ config
\* AVAILABLE_SCHEMES
AVAILABLE_SCHEMES == {"default", "monochrome", "pastel", "vibrant"}

\* The names a user passes: the available ones and some that are not.
SchemeNames ==
    AVAILABLE_SCHEMES \cup {"nonexistent", "nonexistent_scheme", "Default", ""}

\* Config(color_scheme=v): the field validator runs on construction and
\* raises ValueError for a name that is not available.
Config(v) ==
    IF v \notin AVAILABLE_SCHEMES
    THEN [raised |-> Some("ValueError"), color_scheme |-> None]
    ELSE [raised |-> None, color_scheme |-> Some(v)]

\* Config.load: the default Config when there is no file or when building
\* the Config from the file's data fails.
Config_load(file) ==
    IF file = None THEN Config("default")
    ELSE IF Config(file[1]).raised # None THEN Config("default")
    ELSE Config(file[1])

\* The outcome of Config construction or of a set-scheme command.
ConfigRun(op, scheme, exception, exit_code) ==
    [op |-> op, scheme |-> scheme, raised |-> exception,
     exit_code |-> exit_code]

\* Config(color_scheme=scheme)
ConstructConfig(scheme) ==
    /\ cfg_run' = Some(ConfigRun("Config", scheme, Config(scheme).raised, 0))
    /\ UNCHANGED <<now, tz, query, proc, handled, config_file>>
    /\ UNCHANGED runVars
    /\ UNCHANGED reportVars
    /\ UNCHANGED cliVars
    /\ UNCHANGED parseVars

\* `config set-scheme <scheme>`: Config.load(), the assignment
\* config.color_scheme = scheme, config.save().  The model class does not
\* enable validate_assignment, so the assignment stores any string and the
\* validator does not run; save writes the model to the file unless the
\* write fails with OSError (writable is the environment's).
SetScheme(scheme, writable) ==
    /\ LET loaded == Config_load(config_file)
           assigned == [loaded EXCEPT !.color_scheme = Some(scheme)]
       IN IF writable
          THEN /\ config_file' = assigned.color_scheme
               /\ cfg_run' = Some(ConfigRun("set-scheme", scheme, None, 0))
          ELSE /\ config_file' = config_file
               /\ cfg_run' = Some(ConfigRun("set-scheme", scheme,
                                            Some("OSError"), 1))
    /\ UNCHANGED <<now, tz, query, proc, handled>>
    /\ UNCHANGED runVars
    /\ UNCHANGED reportVars
    /\ UNCHANGED cliVars
    /\ UNCHANGED parseVars

InitConfig ==
    /\ InitReportIdle
    /\ now = Now0
    /\ tz = 0
    /\ InitCliIdle
    /\ InitExtIdle

NextConfig ==
    \/ \E scheme \in SchemeNames : ConstructConfig(scheme)
    \/ \E scheme \in SchemeNames, writable \in BOOLEAN :
          SetScheme(scheme, writable)

SpecConfig == InitConfig /\ [][NextConfig]_vars

\* ------------------------------------------------------------ undo
\* The most operations timewarrior's journal holds in the model.
MaxUndoLog == 11

\* The safety limit of the undo loop (`if undo_count >= 10`).
MaxUndoAttempts == 10

\* The operations a user records with timewarrior: start and stop change
\* the intervals' times, modify changes only the newest interval's tags or
\* its annotation (timew tag @1 x, timew annotate @1 note, timew untag @1 x).
TimewOps == {"start", "stop", "modify"}

\* The newest interval of tw after a tag or annotation change.
Modified(i) ==
    IF ~InSeq("x", i.tags) THEN [i EXCEPT !.tags = Append(i.tags, "x")]
    ELSE IF i.annotation = None THEN [i EXCEPT !.annotation = Some("note")]
    ELSE [i EXCEPT !.tags = SelectSeq(i.tags, LAMBDA t : t # "x")]

\* The intervals after operation op at time clock.
TimewApply(tw, op, clock) ==
    IF op = "start" THEN Append(tw, Interval(clock, None, <<"work">>, None))
    ELSE IF op = "stop"
    THEN [tw EXCEPT ![Len(tw)] = [@ EXCEPT !.end = Some(clock)]]
    ELSE [tw EXCEPT ![Len(tw)] = Modified(@)]

\* The user runs one timewarrior operation; timewarrior records it in its
\* undo journal.
TimewRecord(op) ==
    /\ Len(undo_log) < MaxUndoLog
    /\ IF op = "start"
       THEN /\ Len(timew) < MaxEntries
            /\ IF timew = <<>> THEN TRUE ELSE timew[Len(timew)].end # None
       ELSE IF op = "stop"
       THEN IF timew = <<>> THEN FALSE ELSE timew[Len(timew)].end = None
       ELSE timew # <<>>
    /\ timew' = TimewApply(timew, op, now)
    /\ undo_log' = Append(undo_log, timew)
    /\ UNCHANGED <<now, tz, db, week_start, exported, all_entries, cli_report,
                   cmd>>
    /\ UNCHANGED reportVars
    /\ UNCHANGED <<parseVars, query, proc, handled, config_file, cfg_run>>
    /\ UNCHANGED <<undo_run, start_run, import_run>>

\* get_current_entries: `timew export :day` parsed, today's intervals.
get_current_entries(tw, offset, clock) ==
    TimewExport(tw, DateOf(clock + offset), offset, clock)

\* entries_have_meaningful_difference(before, after)
entries_have_meaningful_difference_AnyChange(before, after) ==
    before # after

entries_have_meaningful_difference(before, after) ==
    IF Len(before) # Len(after) THEN TRUE
    ELSE \E k \in 1..Len(before) :
            \/ before[k].start # after[k].start
            \/ before[k].end # after[k].end
            \/ before[k].id # after[k].id

\* The safety check that ends the loop (`undo_count >= 10`).
UndoLimitReached_OffByOne(undo_count) == undo_count > MaxUndoAttempts

UndoLimitReached(undo_count) == undo_count >= MaxUndoAttempts

\* What one undo command did: the flag, the number of `timew undo` runs, the
\* entry lists before and after each run that succeeded, and the exception
\* raised.
UndoRun(single_operation, undos, steps, exception) ==
    [single_operation |-> single_operation, undos |-> undos, steps |-> steps,
     raised |-> exception]

\* The `while True` loop of undo_last_action from its undo_count-th turn on.
\* `timew undo` restores the intervals as they were before the newest
\* operation of the journal; with an empty journal it either fails with
\* "Nothing to undo" (fails) or exits 0 and changes nothing.
RECURSIVE UndoLoop(_, _, _, _, _, _, _, _, _)
UndoLoop(tw, log, current_entries, undo_count, single_operation, steps, fails, offset, clock) ==
    LET count == undo_count + 1
        empty == log = <<>>
        tw2 == IF empty THEN tw ELSE log[Len(log)]
        log2 == IF empty THEN log ELSE SubSeq(log, 1, Len(log) - 1)
        new_entries == get_current_entries(tw2, offset, clock)
        steps2 == Append(steps, [before |-> current_entries,
                                 after |-> new_entries])
    IN IF empty /\ fails
       THEN [timew |-> tw, log |-> log,
             run |-> UndoRun(single_operation, count, steps,
                       Some(CalledProcessError(1, "", "Nothing to undo")))]
       ELSE IF single_operation
       THEN [timew |-> tw2, log |-> log2,
             run |-> UndoRun(single_operation, count, steps2, None)]
       ELSE IF entries_have_meaningful_difference(current_entries, new_entries)
       THEN [timew |-> tw2, log |-> log2,
             run |-> UndoRun(single_operation, count, steps2, None)]
       ELSE IF UndoLimitReached(count)
       THEN [timew |-> tw2, log |-> log2,
             run |-> UndoRun(single_operation, count, steps2, None)]
       ELSE UndoLoop(tw2, log2, new_entries, count, single_operation, steps2,
                     fails, offset, clock)

\* undo_last_action(single_operation): the whole command.  The wrapper of
\* handle_timew_errors reports a failing `timew undo` and raises it again.
UndoLastAction(single_operation, fails) ==
    /\ LET initial_entries == get_current_entries(timew, tz, now)
           done == UndoLoop(timew, undo_log, initial_entries, 0,
                            single_operation, <<>>, fails, tz, now)
       IN /\ timew' = done.timew
          /\ undo_log' = done.log
          /\ undo_run' = Some(done.run)
          /\ handled' = Some(handle_timew_errors(done.run.raised))
    /\ UNCHANGED <<now, tz, db, week_start, exported, all_entries, cli_report,
                   cmd>>
    /\ UNCHANGED reportVars
    /\ UNCHANGED <<parseVars, query, proc, config_file, cfg_run>>
    /\ UNCHANGED <<start_run, import_run>>

InitUndo ==
    /\ InitReportIdle
    /\ now = Now0
    /\ tz = 0
    /\ InitCliIdle
    /\ InitExtIdle

NextUndo ==
    \/ \E op \in TimewOps : TimewRecord(op)
    \/ \E single_operation \in BOOLEAN, fails \in BOOLEAN :
          UndoLastAction(single_operation, fails)

SpecUndo == InitUndo /\ [][NextUndo]_vars

\* ------------------------------------------------------------ start / stop
\* The arguments of a start command: the tag as typed, whether words follow
\* it (the annotation), and the 4-digit start time as start_timer passes it
\* on (None or Some("HH:MM")): a time before every interval, the minute the
\* clock starts at, and a later one.
TagArgs == {None, Some("work"), Some("Home")}
StartTimes == {None, Some("08:00"), Some("09:00"), Some("23:00")}

\* The instant timewarrior reads "HH:MM" as: that time of the current day.
TimeToday(text, clock) ==
    DateOf(clock) * MinutesPerDay
      + (IF text = "08:00" THEN 8 * 60 ELSE IF text = "09:00" THEN 9 * 60
         ELSE 23 * 60)

\* `except TimewarriorError`: the exceptions the clause catches.
IsTimewarriorError(exception) == exception[1].type = "TimewarriorError"

\* What the timew process does with `timew start <tag> [<time>] [:adjust]`:
\* its exit code, its stderr and the intervals afterwards.  A start in the
\* future and a start that overlaps an interval (without :adjust) fail; a
\* start with the tags of the open interval changes nothing.
TimewStart(tw, tag, at, adjust, clock) ==
    LET s == IF at = None THEN clock ELSE TimeToday(at[1], clock)
        open == IF tw = <<>> THEN FALSE ELSE tw[Len(tw)].end = None
        overlaps == \E k \in 1..Len(tw) :
                       \/ tw[k].start >= s
                       \/ tw[k].end # None /\ tw[k].end[1] > s
        kept == SelectSeq(tw, LAMBDA i : i.start < s)
        cut == [k \in 1..Len(kept) |->
                   IF kept[k].end = None THEN [kept[k] EXCEPT !.end = Some(s)]
                   ELSE IF kept[k].end[1] > s
                   THEN [kept[k] EXCEPT !.end = Some(s)]
                   ELSE kept[k]]
    IN IF s > clock
       THEN [returncode |-> 255, tw |-> tw,
             stderr |-> "Time tracking cannot be set in the future."]
       ELSE IF open /\ tw[Len(tw)].tags = <<tag>>
       THEN [returncode |-> 0, tw |-> tw, stderr |-> ""]
       ELSE IF overlaps /\ ~adjust
       THEN [returncode |-> 255, tw |-> tw,
             stderr |-> "You cannot overlap intervals"]
       ELSE [returncode |-> 0, stderr |-> "",
             tw |-> Append(cut, Interval(s, None, <<tag>>, None))]

\* What one start command did: the timew commands it ran in order, whether
\* it asked for the automatic-adjust confirmation and the answer, and the
\* exception it raised.
StartRun(commands, asked, confirm, exception) ==
    [commands |-> commands, asked |-> asked, confirm |-> confirm,
     raised |-> exception]

\* The part of start_timer after the time argument was handled: the start
\* command cmd_args, then the annotate command.
StartAndAnnotate(tw, cmd_args, tag, at, adjust, annotation, installed, clock, ran, asked, confirm) ==
    LET o == TimewStart(tw, tag, at, adjust, clock)
        r == run_timew_command(cmd_args, TRUE, installed, o.returncode, "",
                               o.stderr)
        commands == Append(ran, cmd_args)
        annotate_cmd == <<"annotate", "meeting">>
    IN IF r.raised # None
       THEN IF IsTimewarriorError(r.raised)
               /\ Contains(r.raised[1].message, "You cannot overlap intervals")
            THEN [timew |-> tw,
                  run |-> StartRun(commands, asked, confirm, None)]
            ELSE [timew |-> tw,
                  run |-> StartRun(commands, asked, confirm, r.raised)]
       ELSE IF annotation
       THEN [timew |-> [o.tw EXCEPT ![Len(o.tw)] =
                                [@ EXCEPT !.annotation = Some("meeting")]],
             run |-> StartRun(Append(commands, annotate_cmd), asked, confirm,
                              None)]
       ELSE [timew |-> o.tw,
             run |-> StartRun(commands, asked, confirm, None)]

\* start_timer(args) with args given: the tag is lowercased, a 4-digit word
\* is the start time, further words are the annotation.  With a start time
\* the command is first run without :adjust "to detect overlaps"
\* (test_cmd), and when that run succeeds the same command is run again.
start_timer(tw, tag_arg, annotation, time_arg, confirm, installed, clock) ==
    IF tag_arg = None
    THEN [timew |-> tw,
          run |-> StartRun(<<>>, FALSE, confirm,
                     Some(Exception("TimeHelperError", "No tag provided", 0,
                                    "", "", None)))]
    ELSE
    LET tag == lower(tag_arg[1])
        cmd_args == <<"start", tag>>
        test_cmd == IF time_arg = None THEN cmd_args
                    ELSE cmd_args \o <<time_arg[1]>>
        o == TimewStart(tw, tag, time_arg, FALSE, clock)
        t == run_timew_command(test_cmd, TRUE, installed, o.returncode, "",
                               o.stderr)
    IN IF time_arg = None
       THEN StartAndAnnotate(tw, cmd_args, tag, time_arg, FALSE, annotation,
                             installed, clock, <<>>, FALSE, confirm)
       ELSE IF t.raised = None
       THEN StartAndAnnotate(o.tw, test_cmd, tag, time_arg, FALSE, annotation,
                             installed, clock, <<test_cmd>>, FALSE, confirm)
       ELSE IF ~IsTimewarriorError(t.raised)
       THEN [timew |-> tw,
             run |-> StartRun(<<test_cmd>>, FALSE, confirm, t.raised)]
       ELSE IF Contains(t.raised[1].message, "You cannot overlap intervals")
       THEN IF confirm
            THEN StartAndAnnotate(tw, test_cmd \o <<":adjust">>, tag,
                                  time_arg, TRUE, annotation, installed,
                                  clock, <<test_cmd>>, TRUE, confirm)
            ELSE [timew |-> tw,
                  run |-> StartRun(<<test_cmd>>, TRUE, confirm, None)]
       ELSE IF Contains(t.raised[1].message, "cannot be set in the future")
       THEN [timew |-> tw,
             run |-> StartRun(<<test_cmd>>, FALSE, confirm,
                        Some(Exception("TimeHelperError",
                                       t.raised[1].message, 0, "", "",
                                       None)))]
       ELSE [timew |-> tw,
             run |-> StartRun(<<test_cmd>>, FALSE, confirm, t.raised)]

\* One start command.  The user's answer to the confirmation is `confirm`.
StartTimer(tag_arg, annotation, time_arg, confirm, installed) ==
    /\ Len(timew) < MaxEntries
    /\ LET done == start_timer(timew, tag_arg, annotation, time_arg, confirm,
                               installed, now)
       IN /\ timew' = done.timew
          /\ undo_log' = IF done.timew = timew THEN undo_log
                         ELSE Append(undo_log, timew)
          /\ start_run' = Some(done.run)
          /\ handled' = Some(handle_timew_errors(done.run.raised))
    /\ UNCHANGED <<now, tz, db, week_start, exported, all_entries, cli_report,
                   cmd>>
    /\ UNCHANGED reportVars
    /\ UNCHANGED <<parseVars, query, proc, config_file, cfg_run>>
    /\ UNCHANGED <<undo_run, import_run>>

\* stop_timer: `timew stop` ends the open interval, and fails when there is
\* none.
StopTimer ==
    /\ LET open == IF timew = <<>> THEN FALSE
                   ELSE timew[Len(timew)].end = None
           r == run_timew_command(<<"stop">>, TRUE, TRUE,
                                  IF open THEN 0 ELSE 255, "",
                                  IF open THEN ""
                                  ELSE "There is no active time tracking")
       IN /\ timew' = IF open THEN TimewApply(timew, "stop", now) ELSE timew
          /\ undo_log' = IF open THEN Append(undo_log, timew) ELSE undo_log
          /\ handled' = Some(handle_timew_errors(r.raised))
    /\ UNCHANGED <<now, tz, db, week_start, exported, all_entries, cli_report,
                   cmd>>
    /\ UNCHANGED reportVars
    /\ UNCHANGED <<parseVars, query, proc, config_file, cfg_run>>
    /\ UNCHANGED <<undo_run, start_run, import_run>>

InitStart ==
    /\ InitReportIdle
    /\ now = Now0
    /\ tz = 0
    /\ InitCliIdle
    /\ InitExtIdle

NextStart ==
    \/ \E tag_arg \in TagArgs, annotation \in BOOLEAN, time_arg \in StartTimes,
          confirm \in BOOLEAN, installed \in BOOLEAN :
          StartTimer(tag_arg, annotation, time_arg, confirm, installed)
    \/ StopTimer

SpecStart == InitStart /\ [][NextStart]_vars

\* ------------------------------------------------------------ import-all
\* `timew export :all`: every interval as a raw record, oldest first, its
\* id counted from the newest interval.
RawExport(tw) ==
    [k \in 1..Len(tw) |->
        Record(Some(Len(tw) - k + 1),
               Some(RawTime(TimewFormat, tw[k].start)),
               IF tw[k].end = None THEN None
               ELSE Some(RawTime(TimewFormat, tw[k].end[1])),
               IF tw[k].tags = <<>> THEN None ELSE Some(tw[k].tags),
               tw[k].annotation)]

\* What can be wrong with one record of an export: a start or an end that is
\* not in timewarrior's format, a missing id.
Damages == {"none", "start", "end", "id"}

\* The export undamaged, or one of its records damaged in one way.
DamageChoices ==
    {<<1, "none">>}
    \cup {<<k, how>> : k \in 1..Len(TimewPool), how \in Damages \ {"none"}}

Damaged(data, k, how) ==
    IF how = "none" \/ k > Len(data) THEN data
    ELSE IF how = "start"
    THEN [data EXCEPT ![k].start = Some(RawTime("%Y-%m-%dT%H:%M:%SZ",
                                                 @[1].minutes))]
    ELSE IF how = "end"
    THEN [data EXCEPT ![k].end = Some(RawTime("%Y-%m-%dT%H:%M:%SZ", 0))]
    ELSE [data EXCEPT ![k].id = None]

\* The body of the try block of _parse_entries_by_date succeeds for a
\* record: from_dict builds the entry and parse_start reads its start.
ParsesByDate(record) ==
    IF from_dict(record).error # None THEN FALSE
    ELSE strptime(from_dict(record).entry[1].start) # None

\* _parse_entries_by_date(data): the entries grouped by the local date of
\* their start, in the order the dates are met, the number of entries
\* grouped, and the number of warnings (one per record the try block failed
\* for).
_parse_entries_by_date(data, offset) ==
    LET good == SelectSeq(data, ParsesByDate)
        tes == [n \in 1..Len(good) |-> from_dict(good[n]).entry[1]]
        date_of(te) == DateOf(strptime(te.start)[1] + offset)
        keys == Distinct([n \in 1..Len(tes) |-> date_of(tes[n])])
    IN [entries_by_date |->
            [a \in 1..Len(keys) |->
                [date |-> keys[a],
                 entries |-> SelectSeq(tes, LAMBDA te : date_of(te) = keys[a])]],
        total_entries |-> Len(good),
        warnings |-> Len(data) - Len(good)]

\* db.store_time_entries(entries, date) for one date raises when
\* get_duration_hours cannot read an entry's end; the connection's context
\* manager then rolls the date's inserts back and import_all_data reports
\* the date and goes on.
StoresGroup(g) == \A n \in 1..Len(g.entries) : WellFormed(g.entries[n])

\* A group with its entries' timestamps read.
ReadGroup(g) ==
    [date |-> g.date,
     entries |-> [n \in 1..Len(g.entries) |-> ToEntry(g.entries[n])]]

\* The groups that are stored, and their entries in storing order.
RECURSIVE ReadGroups(_)
ReadGroups(gs) ==
    IF gs = <<>> THEN <<>> ELSE <<ReadGroup(gs[1])>> \o ReadGroups(Tail(gs))

RECURSIVE GroupEntries(_)
GroupEntries(gs) ==
    IF gs = <<>> THEN <<>> ELSE gs[1].entries \o GroupEntries(Tail(gs))

\* What one import-all command did: its flags, the number of rows it found
\* in the database (None when it did not look), whether it ran
\* `timew export :all`, the raw records it got, the result of
\* _parse_entries_by_date (None when not reached), the groups whose store
\* failed and the number of entries imported.
ImportRun(dry_run, force, existing_count, queried, data, parsed_, failed, imported_count) ==
    [dry_run |-> dry_run, force |-> force, existing_count |-> existing_count,
     queried |-> queried, data |-> data, parsed |-> parsed_,
     failed |-> failed, imported_count |-> imported_count]

\* Mutant: the check for existing data never ends the command.
SkipsImport_Never(dry_run, force, rows) == FALSE

\* The check for existing data ends the command: neither flag is set and
\* the table time_entries has rows.
SkipsImport(dry_run, force, rows) == ~force /\ ~dry_run /\ rows # {}

\* import_all_data(dry_run, force).  The export's records are timewarrior's
\* intervals, one of them possibly damaged (k, how).
ImportAll(dry_run, force, k, how) ==
    LET checks == ~force /\ ~dry_run
        existing_count == IF checks THEN Some(Cardinality(db)) ELSE None
        data == Damaged(RawExport(timew), k, how)
        p == _parse_entries_by_date(data, tz)
        stored == SelectSeq(p.entries_by_date, StoresGroup)
        failed == SelectSeq(p.entries_by_date, LAMBDA g : ~StoresGroup(g))
        groups == ReadGroups(stored)
        reads == Len(SelectSeq(GroupEntries(groups), IsActive))
        imported == Len(GroupEntries(groups))
    IN /\ IF SkipsImport(dry_run, force, db)
          THEN /\ import_run' = Some(ImportRun(dry_run, force, existing_count,
                                               FALSE, <<>>, None, <<>>, 0))
               /\ UNCHANGED <<db, now>>
          ELSE IF data = <<>>
          THEN /\ import_run' = Some(ImportRun(dry_run, force, existing_count,
                                               TRUE, data, None, <<>>, 0))
               /\ UNCHANGED <<db, now>>
          ELSE IF dry_run
          THEN /\ import_run' = Some(ImportRun(dry_run, force, existing_count,
                                               TRUE, data, Some(p), <<>>, 0))
               /\ UNCHANGED <<db, now>>
          ELSE \E clk \in ClockSeqs(now, reads) :
                  /\ import_run' = Some(ImportRun(dry_run, force,
                                            existing_count, TRUE, data,
                                            Some(p), failed, imported))
                  /\ db' = StoreGroups(db, groups, tz, clk)
                  /\ now' = IF clk = <<>> THEN now ELSE clk[Len(clk)]
       /\ UNCHANGED <<timew, tz, week_start, exported, all_entries,
                      cli_report, cmd>>
       /\ UNCHANGED reportVars
       /\ UNCHANGED <<parseVars, query, proc, handled, config_file, cfg_run>>
       /\ UNCHANGED <<undo_log, undo_run, start_run>>

\* import-all on exports that can hold a damaged record.
InitImport ==
    /\ InitReportIdle
    /\ now = Now0
    /\ tz = 120
    /\ InitCliIdle
    /\ InitExtIdle

NextImport ==
    \/ \E k \in 1..Len(TimewPool) : TimewTrack(k)
    \/ \E dry_run \in BOOLEAN, force \in BOOLEAN, damage \in DamageChoices :
          ImportAll(dry_run, force, damage[1], damage[2])

SpecImport == InitImport /\ [][NextImport]_vars

\* import-all and report-generate on the same cache.
InitCache ==
    /\ InitReportIdle
    /\ now = Now0
    /\ tz = 0
    /\ InitCliIdle
    /\ InitExtIdle

NextCache ==
    \/ \E k \in 1..Len(TimewPool) : TimewTrack(k)
    \/ \E dry_run \in BOOLEAN, force \in BOOLEAN :
          ImportAll(dry_run, force, 1, "none")
    \/ \E use_cache \in BOOLEAN : ReportGenerate(use_cache, 0)

SpecCache == InitCache /\ [][NextCache]_vars

\* ============================================================ properties
Rep == report[1]

AllEnded(es) == \A i \in 1..Len(es) : ~IsActive(es[i])

DailySum(r) ==
    SumSeq([a \in 1..Len(r.daily_reports) |-> r.daily_reports[a].total_hours])

WeeklySum(r) ==
    SumSeq([a \in 1..Len(r.weekly_summaries) |->
               r.weekly_summaries[a].total_hours])

\* C1 as stated: for every non-empty input list, the sum of the daily totals
\* equals the sum of the range-wide tag totals, and both equal total_hours.
C1_TotalsAgree_AnyList ==
    (report # None /\ entries # <<>>) =>
        /\ DailySum(Rep) = WeeklySum(Rep)
        /\ WeeklySum(Rep) = Rep.total_hours

\* C1 amended: for every non-empty input list whose intervals all have an
\* end, the sum of the daily totals equals the sum of the range-wide tag
\* totals, and both equal the report's total_hours.
C1_TotalsAgree ==
    (report # None /\ entries # <<>> /\ AllEnded(entries)) =>
        /\ DailySum(Rep) = WeeklySum(Rep)
        /\ WeeklySum(Rep) = Rep.total_hours

C1_Witness ==
    /\ report # None
    /\ AllEnded(entries)
    /\ Len(Rep.daily_reports) >= 2
    /\ Len(Rep.weekly_summaries) >= 2
    /\ \E i \in 1..Len(entries) : Len(entries[i].tags) >= 2
    /\ Rep.total_hours > 0

\* The readings of a clock that stands still at `now`.
ClockAt(es) == [k \in 1..ClockReads(es) |-> now]

Aggregate(es) ==
    generate_report(es, args[1].start_date, args[1].end_date,
                    args[1].tags, tz, ClockAt(es))

TextFormats == {"markdown", "csv"}

DayBucketEntries(r) ==
    Flatten([a \in 1..Len(r.daily_reports) |->
        Flatten([b \in 1..Len(r.daily_reports[a].tag_summaries) |->
            r.daily_reports[a].tag_summaries[b].entries])])

WeekBucketEntries(r) ==
    Flatten([a \in 1..Len(r.weekly_summaries) |->
                r.weekly_summaries[a].entries])

\* The (date, tag) pairs of the day buckets.
DayBucketKeys(r) ==
    Flatten([a \in 1..Len(r.daily_reports) |->
        [b \in 1..Len(r.daily_reports[a].tag_summaries) |->
            <<r.daily_reports[a].date,
              r.daily_reports[a].tag_summaries[b].tag>>]])

Count(x, s) == Cardinality({i \in 1..Len(s) : s[i] = x})

\* C6: generate_report attaches start_date, end_date and the tags filter to
\* the Report as given, and filters nothing: every input interval is in the
\* day buckets and in the range-wide buckets as often as it is in the input,
\* whether or not its primary tag is in the filter.
C6_FilterAttachedNotApplied ==
    report # None =>
        /\ Rep.tags = args[1].tags
        /\ Rep.week_start = args[1].start_date
        /\ Rep.end_date = args[1].end_date
        /\ \A i \in 1..Len(entries) :
              /\ Count(entries[i], DayBucketEntries(Rep))
                    = Count(entries[i], entries)
              /\ Count(entries[i], WeekBucketEntries(Rep))
                    = Count(entries[i], entries)
        /\ Len(DayBucketEntries(Rep)) = Len(entries)
        /\ Len(WeekBucketEntries(Rep)) = Len(entries)

C6_Witness ==
    /\ report # None
    /\ args[1].tags = Some(<<"work">>)
    /\ \E i \in 1..Len(entries) : get_primary_tag(entries[i]) = "home"
    /\ \E a \in 1..Len(Rep.weekly_summaries) :
          Rep.weekly_summaries[a].tag = "home"

\* C7: generate_report returns for an empty list, and the Report has no
\* daily reports, no weekly summaries and total_hours 0.
C7_EmptyInputEmptyReport ==
    (calls > 0 /\ entries = <<>>) =>
        /\ report # None
        /\ Rep.daily_reports = <<>>
        /\ Rep.weekly_summaries = <<>>
        /\ Rep.total_hours = 0

C7_Witness == calls > 0 /\ entries = <<>> /\ report # None

\* Reading the rendered output back: a day section starts at its header line
\* and runs to the next section header.
DayHeaderKinds == {"### ", "day header"}
SectionKinds == DayHeaderKinds \cup {"## Weekly Summary", "Weekly Summary:"}
DayRowKinds == {"| tag | hours | annotations |", "  tag: hours", "row"}
WeekRowKinds == {"| tag | total | breakdown |", "table row"}

HasLine(text, kind) == \E k \in 1..Len(text) : text[k].kind = kind

DayHeaders(text, d) ==
    {k \in 1..Len(text) : /\ text[k].kind \in DayHeaderKinds
                          /\ text[k].dates = get_formatted_date(d)}

SectionLines(text, k) ==
    LET later == {j \in (k + 1)..Len(text) : text[j].kind \in SectionKinds}
        end == IF later = {} THEN Len(text) + 1
               ELSE CHOOSE j \in later : \A i \in later : j <= i
    IN SubSeq(text, k + 1, end - 1)

TagsOf(lines) == [k \in 1..Len(lines) |-> lines[k].tag]

DayRowTags(fmt, text, d) ==
    IF fmt = "csv"
    THEN TagsOf(SelectSeq(text, LAMBDA l :
             l.kind = "row" /\ l.dates = get_formatted_date(d)))
    ELSE IF DayHeaders(text, d) = {} THEN <<>>
    ELSE TagsOf(SelectSeq(SectionLines(text, CHOOSE k \in DayHeaders(text, d) :
                                                  TRUE),
                          LAMBDA l : l.kind \in DayRowKinds))

WeekRowTags(text) ==
    TagsOf(SelectSeq(text, LAMBDA l : l.kind \in WeekRowKinds))

EmptyCase ==
    /\ report # None
    /\ entries = <<>>
    /\ args[1].end_date # None
    /\ args[1].end_date[1] - args[1].start_date + 1 = 3

CsvHeader == Lit("Date,Day,Tag,Hours,Annotations")

\* C8 as stated: for an empty list aggregated over a 3-day range the Markdown
\* output contains "*No time tracked this week*" and, for each day of the
\* range, a day section containing "*No time tracked*"; the CSV output is
\* the header row only.
C8_EmptyRangeHasDaySections ==
    EmptyCase =>
        LET md == format_as_markdown(Rep)
        IN /\ HasLine(md, "*No time tracked this week*")
           /\ \A d \in args[1].start_date..args[1].end_date[1] :
                 \E k \in DayHeaders(md, d) :
                     HasLine(SectionLines(md, k), "*No time tracked*")
           /\ format_as_csv(Rep) = <<CsvHeader>>

\* C8 amended: for an empty list aggregated over a 3-day range the Markdown
\* output contains "*No time tracked this week*" and no day section (so
\* "*No time tracked*" does not occur); the CSV output is the header row
\* only, with zero data rows.
C8_EmptyRangeNoDaySections ==
    EmptyCase =>
        LET md == format_as_markdown(Rep)
        IN /\ HasLine(md, "*No time tracked this week*")
           /\ ~HasLine(md, "### ")
           /\ ~HasLine(md, "*No time tracked*")
           /\ format_as_csv(Rep) = <<CsvHeader>>

C8_Witness ==
    /\ EmptyCase
    /\ rendered # None
    /\ rendered[1].fmt = "markdown"
    /\ HasLine(rendered[1].text, "## Daily Reports")

HoursOf(summaries, tag) ==
    (CHOOSE ts \in {summaries[k] : k \in 1..Len(summaries)} :
         ts.tag = tag).total_hours

\* tags_out lists every key once, by descending total_hours, equal totals in
\* the order of keys.
InHoursOrder(tags_out, summaries, keys) ==
    /\ Len(tags_out) = Len(keys)
    /\ \A i \in 1..Len(tags_out) : InSeq(tags_out[i], keys)
    /\ \A i, j \in 1..Len(tags_out) :
          i < j =>
             \/ HoursOf(summaries, tags_out[i]) > HoursOf(summaries, tags_out[j])
             \/ /\ HoursOf(summaries, tags_out[i])
                      = HoursOf(summaries, tags_out[j])
                /\ IndexOf(keys, tags_out[i]) < IndexOf(keys, tags_out[j])

\* C9 as stated: in every renderer the tag rows of a day and the rows of the
\* range-wide summary are in descending total_hours order, and rows with
\* equal total_hours are in the order in which aggregation first met their
\* tags in the input.
C9_TiesByInputFirstSeen ==
    report # None =>
        \A fmt \in Formats :
            LET text == Render(fmt, Rep)
            IN /\ \A a \in 1..Len(Rep.daily_reports) :
                     LET dr == Rep.daily_reports[a]
                         day_tags == DayTagKeys(entries, args[1].start_date,
                                                dr.date)
                     IN InHoursOrder(DayRowTags(fmt, text, dr.date),
                                     dr.tag_summaries,
                                     SelectSeq(WeekKeys(entries),
                                         LAMBDA t : InSeq(t, day_tags)))
               /\ fmt # "csv" =>
                     InHoursOrder(WeekRowTags(text), Rep.weekly_summaries,
                                  WeekKeys(entries))

\* C9 amended: in every renderer the tag rows of a day and the rows of the
\* range-wide summary are in descending total_hours order; rows of a day
\* with equal total_hours are in the order in which aggregation first met
\* their tags among that day's intervals, rows of the range-wide summary
\* with equal total_hours in the order in which it first met their tags in
\* the whole input.
C9_TagsByHoursThenFirstSeen ==
    report # None =>
        \A fmt \in Formats :
            LET text == Render(fmt, Rep)
            IN /\ \A a \in 1..Len(Rep.daily_reports) :
                     LET dr == Rep.daily_reports[a]
                     IN InHoursOrder(DayRowTags(fmt, text, dr.date),
                                     dr.tag_summaries,
                                     DayTagKeys(entries, args[1].start_date,
                                                dr.date))
               /\ fmt # "csv" =>
                     InHoursOrder(WeekRowTags(text), Rep.weekly_summaries,
                                  WeekKeys(entries))

C9_Witness ==
    /\ rendered # None
    /\ rendered[1].text = Render(rendered[1].fmt, Rep)
    /\ \E a \in 1..Len(Rep.daily_reports) :
          LET ts == Rep.daily_reports[a].tag_summaries
          IN \E i, j \in 1..Len(ts) :
                /\ i < j
                /\ ts[i].total_hours = ts[j].total_hours
                /\ IndexOf(WeekKeys(entries), ts[j].tag)
                      < IndexOf(WeekKeys(entries), ts[i].tag)

\* A day whose later-met tag has more hours, next to a tie: the sort moves
\* rows and keeps the tie in place.
C9_ReorderReached ==
    /\ rendered # None
    /\ \E a \in 1..Len(Rep.daily_reports) :
          LET ts == Rep.daily_reports[a].tag_summaries
          IN /\ \E i, j \in 1..Len(ts) :
                   i < j /\ ts[i].total_hours = ts[j].total_hours
             /\ \E i, j \in 1..Len(ts) :
                   i < j /\ ts[i].total_hours < ts[j].total_hours

CsvRows(r) == Tail(format_as_csv(r))

\* ISO dates compare as their year, month, day.
DateBefore(x, y) ==
    \/ x[1] < y[1]
    \/ x[1] = y[1] /\ x[2] < y[2]
    \/ x[1] = y[1] /\ x[2] = y[2] /\ x[3] < y[3]

RowHours(r, row) ==
    HoursOf((CHOOSE dr \in {r.daily_reports[a] :
                               a \in 1..Len(r.daily_reports)} :
                 get_formatted_date(dr.date) = row.dates).tag_summaries,
            row.tag)

\* C10: after the header the CSV output has exactly one data row per
\* (day, tag) pair of the daily reports, in ascending date order and, within
\* a date, in descending hours order; without daily reports it has no data
\* row.
C10_CsvRowPerDayTag ==
    report # None =>
        LET rows == CsvRows(Rep)
        IN /\ format_as_csv(Rep)[1] = CsvHeader
           /\ \A a \in 1..Len(Rep.daily_reports) :
                 \A b \in 1..Len(Rep.daily_reports[a].tag_summaries) :
                     Cardinality({k \in 1..Len(rows) :
                         /\ rows[k].kind = "row"
                         /\ rows[k].dates
                              = get_formatted_date(Rep.daily_reports[a].date)
                         /\ rows[k].tag
                              = Rep.daily_reports[a].tag_summaries[b].tag
                         /\ rows[k].num
                              = Fmt2(Rep.daily_reports[a].tag_summaries[b]
                                        .total_hours)}) = 1
           /\ Len(rows) = Len(DayBucketKeys(Rep))
           /\ \A i, j \in 1..Len(rows) :
                 i < j =>
                    \/ DateBefore(rows[i].dates, rows[j].dates)
                    \/ /\ rows[i].dates = rows[j].dates
                       /\ RowHours(Rep, rows[i]) >= RowHours(Rep, rows[j])
           /\ Rep.daily_reports = <<>> => rows = <<>>

C10_Witness ==
    /\ rendered # None
    /\ rendered[1].fmt = "csv"
    /\ rendered[1].text = format_as_csv(Rep)
    /\ Len(Rep.daily_reports) >= 2
    /\ Rep.daily_reports[1].date > Rep.daily_reports[2].date
    /\ Len(CsvRows(Rep)) > Len(Rep.weekly_summaries)

\* ------------------------------------------------ report-generate command
\* The entries with the given id in the day buckets of a report, with the
\* date of their DailyReport.
BucketDatesOfId(r, id) ==
    Flatten([a \in 1..Len(r.daily_reports) |->
        Flatten([b \in 1..Len(r.daily_reports[a].tag_summaries) |->
            LET es == SelectSeq(r.daily_reports[a].tag_summaries[b].entries,
                                LAMBDA e : e.id = id)
            IN [n \in 1..Len(es) |-> r.daily_reports[a].date]])])

\* C3: every interval returned by a day export of the requested week reaches
\* the report exactly once, under the local calendar date of its own start
\* (also when two consecutive day exports returned it, and when it started
\* before the first day of the week).
C3_AttributedToLocalStartDate ==
    (cli_report # None /\ exported # <<>>) =>
        \A k \in 1..Len(exported) :
            BucketDatesOfId(cli_report[1], exported[k].id)
                = <<DateOf(parse_start(exported[k], tz))>>

FirstIndexOfId(es, id) ==
    CHOOSE k \in 1..Len(es) :
        es[k].id = id /\ \A j \in 1..(k - 1) : es[j].id # id

\* C4: duplicate removal keeps exactly one entry per id, the kept entry is
\* the first occurrence in input order, the kept entries are in input order,
\* and every id of the input is kept.
C4_KeepsFirstOccurrencePerId ==
    exported # <<>> =>
        /\ \A i, j \in 1..Len(all_entries) :
              all_entries[i].id = all_entries[j].id => i = j
        /\ \A j \in 1..Len(all_entries) :
              /\ \E k \in 1..Len(exported) : exported[k].id = all_entries[j].id
              /\ all_entries[j]
                    = exported[FirstIndexOfId(exported, all_entries[j].id)]
        /\ \A i, j \in 1..Len(all_entries) :
              i < j => FirstIndexOfId(exported, all_entries[i].id)
                          < FirstIndexOfId(exported, all_entries[j].id)
        /\ \A k \in 1..Len(exported) :
              \E j \in 1..Len(all_entries) : all_entries[j].id = exported[k].id

C4_Witness ==
    /\ exported # <<>>
    /\ Len(all_entries) >= 3
    /\ Len(all_entries) < Len(exported)
    /\ \E k \in 2..(Len(exported) - 1) :
          /\ exported[k].id = exported[k - 1].id
          /\ exported[k] # exported[k - 1]

\* ------------------------------------------------------------- C11
\* Every tag summary of the report, the per-day ones and the range-wide ones.
AllSummaries(r) ==
    Flatten([a \in 1..Len(r.daily_reports) |->
                r.daily_reports[a].tag_summaries]) \o r.weekly_summaries

NonBlankAt(anns) == {i \in 1..Len(anns) : anns[i] \notin BlankStrings}

FirstAt(anns, x) ==
    CHOOSE i \in 1..Len(anns) :
        anns[i] = x /\ \A j \in 1..(i - 1) : anns[j] # x

\* C11: get_formatted_annotations never returns an empty list.  With at
\* least one non-blank annotation it returns exactly the non-blank
\* annotations, each once, in the order of their first occurrence; otherwise
\* (no annotation, or only blank / whitespace-only ones) it returns the single
\* placeholder "Work on {tag} related tasks".
C11_FormattedAnnotationsNeverEmpty ==
    report # None =>
        \A s \in 1..Len(AllSummaries(Rep)) :
            LET ts == AllSummaries(Rep)[s]
                anns == ts.annotations
                out == get_formatted_annotations(ts)
            IN /\ out # <<>>
               /\ NonBlankAt(anns) = {} => out = <<Placeholder(ts.tag)>>
               /\ NonBlankAt(anns) # {} =>
                    /\ {out[k] : k \in 1..Len(out)} =
                           {anns[i] : i \in NonBlankAt(anns)}
                    /\ \A a, b \in 1..Len(out) :
                           a < b => FirstAt(anns, out[a]) < FirstAt(anns, out[b])

\* A report holding a summary whose annotations are all whitespace-only and
\* a summary where a repeated non-blank annotation has been removed.
C11_Witness ==
    /\ report # None
    /\ \E s \in 1..Len(AllSummaries(Rep)) :
           LET anns == AllSummaries(Rep)[s].annotations
           IN anns # <<>> /\ NonBlankAt(anns) = {}
    /\ \E s \in 1..Len(AllSummaries(Rep)) :
           LET anns == AllSummaries(Rep)[s].annotations
               out == get_formatted_annotations(AllSummaries(Rep)[s])
           IN NonBlankAt(anns) # {} /\ Len(out) < Len(anns)

\* A report holding a summary with two different annotations to order.
C11_TwoAnnotationsReached ==
    /\ report # None
    /\ \E s \in 1..Len(AllSummaries(Rep)) :
           Len(get_formatted_annotations(AllSummaries(Rep)[s])) = 2

\* ------------------------------------------------------------- C12
\* C12: constructing an interval from a raw record fails when `start` is
\* missing or is not written as YYYYMMDDTHHMMSSZ: every TimeEntry that was
\* constructed has a start in that format, and aggregation is never entered
\* with, and never fails on, a malformed start.
C12_MalformedStartNeverConstructed ==
    /\ \A n \in 1..Len(parsed) : strptime(parsed[n].start) # None
    /\ raised # Some("ValueError")

\* The part of C12 the code does keep: a record without `start` is refused.
C12_MissingStartRefused ==
    \A n \in 1..Len(parsed) : parsed[n].id # 5

\* ------------------------------------------------------------- C13
\* The minutes the ended intervals of es last, and the starts of the active
\* ones, from the intervals' own fields.
EndedMinutes(es) ==
    SumSeq([n \in 1..Len(es) |->
               IF IsActive(es[n]) THEN 0 ELSE es[n].end[1] - es[n].start])

ActiveStarts(es) ==
    SumSeq([n \in 1..Len(es) |-> IF IsActive(es[n]) THEN es[n].start ELSE 0])

ActiveCount(es) == Len(SelectSeq(es, IsActive))

\* C13: the duration of an active interval is taken against the current time:
\* in each generate_report call the durations of the active intervals read in
\* the daily pass are at least (clock before the call - start), those read
\* afterwards in the range-wide pass are not smaller than the daily ones and
\* at most (clock after the call - start), the daily ones of a later call are
\* not smaller than the range-wide ones of the call before, and no duration
\* is negative.
C13_ActiveDurationFollowsClock ==
    [][calls' # calls =>
         LET es == entries
             daily == DailySum(report'[1]) - EndedMinutes(es)
             weekly == WeeklySum(report'[1]) - EndedMinutes(es)
         IN /\ ActiveCount(es) * now - ActiveStarts(es) <= daily
            /\ daily <= weekly
            /\ weekly <= ActiveCount(es) * now' - ActiveStarts(es)
            /\ report # None => WeeklySum(Rep) - EndedMinutes(es) <= daily
            /\ \A s \in 1..Len(AllSummaries(report'[1])) :
                   AllSummaries(report'[1])[s].total_hours >= 0]_vars

\* A second aggregation of a list with an active interval, during which the
\* clock moved between the daily and the range-wide evaluation.
C13_Witness ==
    /\ calls = 2
    /\ report # None
    /\ ActiveCount(entries) > 0
    /\ WeeklySum(Rep) > DailySum(Rep)
    /\ now = MaxNow

\* ------------------------------------------------------------- C14
\* The dates of the daily reports that hold entry e in one of their buckets.
DatesHolding(r, e) ==
    {r.daily_reports[a].date : a \in
        {a \in 1..Len(r.daily_reports) :
            \E b \in 1..Len(r.daily_reports[a].tag_summaries) :
                InSeq(e, r.daily_reports[a].tag_summaries[b].entries)}}

\* C14: aggregation attributes an interval whose date is unset to the
\* start_date of the requested range and an interval whose date is set to
\* that date, also when that date lies outside the range.
C14_UnsetDateFallsBackToStartDate ==
    report # None =>
        \A n \in 1..Len(entries) :
            DatesHolding(Rep, entries[n]) =
                {IF entries[n].date = None THEN args[1].start_date
                 ELSE entries[n].date[1]}

\* A report over an interval without date that started on another day than
\* start_date, next to an interval dated on a later day.
C14_Witness ==
    /\ report # None
    /\ \E n \in 1..Len(entries) :
           /\ entries[n].date = None
           /\ DateOf(entries[n].start) # args[1].start_date
    /\ \E n \in 1..Len(entries) :
           entries[n].date # None /\ entries[n].date[1] > args[1].start_date

\* ------------------------------------------------------------- C15
MaxDate(r) ==
    CHOOSE d \in {r.daily_reports[a].date : a \in 1..Len(r.daily_reports)} :
        \A a \in 1..Len(r.daily_reports) : r.daily_reports[a].date <= d

\* C15 as stated: when the Report has no end_date, the range label ends at
\* start_date + 6 days, whatever daily reports the Report holds.
C15_NoEndDateLabelEndsAfterSixDays ==
    (report # None /\ Rep.end_date = None) =>
        get_week_range_string(Rep) = <<Rep.week_start, Rep.week_start + 6>>

\* C15 amended: when the Report has no end_date, the range label ends at the
\* latest date among the Report's daily reports, and at start_date + 6 days
\* only when the Report holds no daily report; the label starts at
\* start_date.
C15_NoEndDateLabelEndsAtLastDay ==
    (report # None /\ Rep.end_date = None) =>
        get_week_range_string(Rep) =
            <<Rep.week_start,
              IF Rep.daily_reports = <<>> THEN Rep.week_start + 6
              ELSE MaxDate(Rep)>>

\* A report without end_date whose daily reports were inserted out of date
\* order and whose latest day is neither the start nor six days after it.
C15_Witness ==
    /\ report # None
    /\ Rep.end_date = None
    /\ Len(Rep.daily_reports) > 1
    /\ Rep.daily_reports[Len(Rep.daily_reports)].date < MaxDate(Rep)
    /\ MaxDate(Rep) # Rep.week_start + 6

\* The label of a report without end_date and without daily reports.
C15_EmptyReached ==
    report # None /\ Rep.end_date = None /\ Rep.daily_reports = <<>>

\* ------------------------------------------------------------- C16
\* The dates of the daily reports of r that have a bucket for tag.
DatesWithTag(r, tag) ==
    {r.daily_reports[a].date : a \in
        {a \in 1..Len(r.daily_reports) :
            \E b \in 1..Len(r.daily_reports[a].tag_summaries) :
                r.daily_reports[a].tag_summaries[b].tag = tag}}

\* The numbers of a set, smallest first.
RECURSIVE Ascending(_)
Ascending(S) ==
    IF S = {} THEN <<>>
    ELSE LET m == CHOOSE x \in S : \A y \in S : x <= y
         IN <<m>> \o Ascending(S \ {m})

\* The total of tag in the daily report of date d.
DayTagHours(r, d, tag) ==
    LET dr == r.daily_reports[CHOOSE a \in 1..Len(r.daily_reports) :
                                  r.daily_reports[a].date = d]
    IN dr.tag_summaries[CHOOSE b \in 1..Len(dr.tag_summaries) :
                            dr.tag_summaries[b].tag = tag].total_hours

\* The breakdown lists exactly the days that have the tag, in ascending date
\* order, each with that day's hours to two decimals.
BreakdownListsDaysWithTag(r, tag) ==
    LET parts == _get_daily_breakdown(tag, r)
        dates == Ascending(DatesWithTag(r, tag))
    IN /\ Len(parts) = Len(dates)
       /\ \A k \in 1..Len(parts) :
              /\ parts[k].day = DayAbbrev(dates[k])
              /\ parts[k].hours = Fmt2(DayTagHours(r, dates[k], tag))

\* C16 as stated: the breakdown lists exactly the days with the tag, in
\* ascending date order, and for a report generate_report built from ended
\* intervals the hours listed in it sum to the tag's range-wide total (as
\* listed, to two decimals).
C16_ListedHoursSumToTotal ==
    (report # None /\ AllEnded(entries)) =>
        \A s \in 1..Len(Rep.weekly_summaries) :
            LET ts == Rep.weekly_summaries[s]
                parts == _get_daily_breakdown(ts.tag, Rep)
            IN /\ BreakdownListsDaysWithTag(Rep, ts.tag)
               /\ SumSeq([k \in 1..Len(parts) |-> parts[k].hours]) =
                      Fmt2(ts.total_hours)

\* C16 amended: the breakdown lists exactly the days with the tag, in
\* ascending date order, and for a report generate_report built from ended
\* intervals the per-day hours of the listed days, before they are formatted
\* to two decimals, sum to the tag's range-wide total.
C16_BreakdownDaysAndExactSum ==
    report # None =>
        \A s \in 1..Len(Rep.weekly_summaries) :
            LET ts == Rep.weekly_summaries[s]
                dates == Ascending(DatesWithTag(Rep, ts.tag))
            IN /\ BreakdownListsDaysWithTag(Rep, ts.tag)
               /\ AllEnded(entries) =>
                      SumSeq([k \in 1..Len(dates) |->
                                 DayTagHours(Rep, dates[k], ts.tag)]) =
                          ts.total_hours

\* A report from ended intervals where a tag has buckets on two days that
\* were built out of date order and another day lacks the tag.
C16_Witness ==
    /\ report # None
    /\ AllEnded(entries)
    /\ \E s \in 1..Len(Rep.weekly_summaries) :
           LET tag == Rep.weekly_summaries[s].tag
           IN /\ Cardinality(DatesWithTag(Rep, tag)) = 2
              /\ \E a \in 1..Len(Rep.daily_reports) :
                     /\ Rep.daily_reports[a].date \notin DatesWithTag(Rep, tag)
              /\ \E a, b \in 1..Len(Rep.daily_reports) :
                     /\ a < b
                     /\ Rep.daily_reports[a].date > Rep.daily_reports[b].date
                     /\ {Rep.daily_reports[a].date, Rep.daily_reports[b].date}
                            = DatesWithTag(Rep, tag)

\* ------------------------------------------------------------- C17
\* The tags a call asks for: None when it gives none.
TagsAsked(q) == IF q.tags = None THEN None ELSE q.tags[1]

\* The stored rows a query is to return.
RowsAsked(q) ==
    {r \in db : /\ q.start_date <= r.date
                /\ r.date <= q.end_date
                /\ TagsAsked(q) # None => InSeq(r.tag, TagsAsked(q)[1])}

\* The result lists the rows by date, then start time.
ResultOrdered(l) ==
    \A a, b \in 1..Len(l) :
        a < b => \/ l[a].date[1] < l[b].date[1]
                 \/ /\ l[a].date[1] = l[b].date[1]
                    /\ l[a].start <= l[b].start

\* The result l of call q lists exactly the rows asked for, in order.
ResultAsAsked(q, l) ==
    /\ {<<l[n].id, l[n].date[1]>> : n \in 1..Len(l)} =
           {<<r.id, r.date>> : r \in RowsAsked(q)}
    /\ Len(l) = Cardinality(RowsAsked(q))
    /\ ResultOrdered(l)

\* C17: get_time_entries(start, end, tags) returns exactly the stored entries
\* dated in [start, end] whose tag is one of `tags` (all entries of the range
\* when no tags are given, none when no stored tag matches), ordered by date,
\* then start time.
C17_QueryFiltersByRangeAndTags ==
    [][query' # query =>
          /\ query'[1].raised = None
          /\ query'[1].result # None
          /\ ResultAsAsked(query'[1], query'[1].result[1])]_vars

\* What the method does for a call without the keyword: the stored entries
\* dated in [start, end], each with its primary tag, by date and start time.
C17_QueryWithoutTagsReturnsRange ==
    [][(query' # query /\ query'[1].tags = None) =>
          /\ query'[1].raised = None
          /\ ResultAsAsked(query'[1], query'[1].result[1])]_vars

\* ------------------------------------------------------------- C18
CacheHit == cmd # None /\ cmd[1].cached # None /\ cmd[1].cached[1] # <<>>

C18_CacheOffReached ==
    /\ cmd # None /\ ~cmd[1].use_cache /\ cmd[1].exports > 0
    /\ \E r \in db : week_start <= r.date /\ r.date <= week_start + 6

C18_MissReached ==
    cmd # None /\ cmd[1].cached = Some(<<>>) /\ cmd[1].exports > 0

\* ------------------------------------------------------------- C19
\* C19: report-generate passes the requested start_date, end_date and tags
\* to the cache lookup, get_time_entries(start_date, end_date, tags=tags),
\* and to the report generator, generate_report(entries, start_date,
\* end_date, tags=tags).
C19_RangeAndTagsPassedOn ==
    cmd # None =>
        LET c == cmd[1]
            asked == <<c.request.start_date, c.request.end_date,
                       c.request.tags>>
        IN /\ c.raised = None
           /\ c.use_cache => c.lookup = Some(asked)
           /\ c.generator # None => c.generator = Some(asked)

\* What the command of the source does for the week it is asked for: the
\* lookup and the generator get the week's Monday and Sunday and no tags.
C19_WeekPassedOn ==
    (cmd # None /\ cmd[1].raised = None) =>
        LET c == cmd[1]
            week == <<week_start, week_start + 6, None>>
        IN /\ c.use_cache => c.lookup = Some(week)
           /\ c.generator # None => c.generator = Some(week)
           /\ cli_report # None =>
                  /\ cli_report[1].week_start = week_start
                  /\ cli_report[1].end_date = Some(week_start + 6)
                  /\ cli_report[1].tags = None

\* ------------------------------------------------------------- C20
\* The timew process of the latest call failed with check enabled.
TimewFailed ==
    /\ proc # None
    /\ proc[1].installed
    /\ proc[1].check
    /\ proc[1].returncode # 0

\* C20: when the timew process exits non-zero with check enabled,
\* run_timew_command raises TimewarriorError whose message is the process's
\* stderr, or its stdout when stderr is empty, and whose original_error is
\* the CalledProcessError.
C20_FailureRaisesTimewarriorError ==
    TimewFailed =>
        /\ proc[1].raised # None
        /\ proc[1].raised[1].type = "TimewarriorError"
        /\ proc[1].raised[1].message =
               (IF proc[1].stderr # "" THEN proc[1].stderr
                ELSE proc[1].stdout)
        /\ proc[1].raised[1].original_error =
               Some(CalledProcessError(proc[1].returncode, proc[1].stdout,
                                       proc[1].stderr))

\* What the function does on such a failure: the CalledProcessError itself
\* is raised, with the process's exit code, stdout and stderr; every other
\* call with timew installed returns the CompletedProcess.
C20_FailureRaisesCalledProcessError ==
    (proc # None /\ proc[1].installed) =>
        IF TimewFailed
        THEN /\ proc[1].result = None
             /\ proc[1].raised =
                    Some(CalledProcessError(proc[1].returncode,
                                            proc[1].stdout, proc[1].stderr))
        ELSE /\ proc[1].raised = None
             /\ proc[1].result =
                    Some(CompletedProcess(proc[1].returncode, proc[1].stdout,
                                          proc[1].stderr))

\* ------------------------------------------------------------- C21
RecognisedTexts ==
    {"No data found", "There is no active time tracking", "Nothing to undo",
     "You cannot overlap intervals"}

\* The text of a timewarrior error: the stderr of a CalledProcessError, the
\* message of a TimewarriorError.
ErrorText(x) == IF x.type = "CalledProcessError" THEN x.stderr ELSE x.message

IsTimewError(x) == x.type \in {"CalledProcessError", "TimewarriorError"}

\* C21: handle_timew_errors re-raises the timewarrior error the wrapped
\* function raised; before that it prints the friendly message when the
\* error text is a recognised one and prints nothing when it is not.
C21_FriendlyMessageThenReraise ==
    (handled # None /\ handled[1].exception # None
        /\ IsTimewError(handled[1].exception[1])) =>
        LET x == handled[1].exception[1]
            known == \E t \in RecognisedTexts : Contains(ErrorText(x), t)
        IN /\ handled[1].raised = Some(x)
           /\ known => handled[1].printed = PrintedFor(ErrorText(x))
           /\ ~known => handled[1].printed = <<>>

\* The part of C21 the wrapper keeps: whatever the wrapped function raises
\* is raised again unchanged, and nothing is printed when it returns.
C21_AlwaysReraised ==
    handled # None =>
        /\ handled[1].raised = handled[1].exception
        /\ handled[1].exception = None => handled[1].printed = <<>>

\* ------------------------------------------------------------- C22
\* C22: a color scheme name that is not available is always rejected:
\* constructing Config with it raises ValueError, `config set-scheme` with it
\* exits with code 1, and the configuration file never holds such a name.
C22_InvalidSchemeRejected ==
    /\ (cfg_run # None /\ cfg_run[1].scheme \notin AVAILABLE_SCHEMES) =>
           IF cfg_run[1].op = "Config"
           THEN cfg_run[1].raised = Some("ValueError")
           ELSE cfg_run[1].exit_code = 1
    /\ config_file # None => config_file[1] \in AVAILABLE_SCHEMES

\* The part of C22 the code keeps: constructing Config with a name that is
\* not available raises ValueError, and with an available name it does not.
C22_ConstructionValidates ==
    (cfg_run # None /\ cfg_run[1].op = "Config") =>
        (cfg_run[1].raised = Some("ValueError")
            <=> cfg_run[1].scheme \notin AVAILABLE_SCHEMES)

\* ------------------------------------------------------------ C23
\* C23: one undo command runs `timew undo` at most 10 times, however many
\* successive undos change only tags or annotations (the command's loop is
\* evaluated to its end in one step: it terminates).
C23_AtMostTenUndos ==
    undo_run # None =>
        /\ undo_run[1].undos >= 1
        /\ undo_run[1].undos <= 10
        /\ Len(undo_run[1].steps) <= undo_run[1].undos

\* The limit is reached: ten undos that changed tags or annotations only.
C23_Witness ==
    /\ undo_run # None
    /\ undo_run[1].undos = 10
    /\ undo_run[1].raised = None
    /\ ~undo_run[1].single_operation
    /\ \A k \in 1..10 :
          /\ undo_run[1].steps[k].before # undo_run[1].steps[k].after
          /\ Len(undo_run[1].steps[k].before) = Len(undo_run[1].steps[k].after)

\* ------------------------------------------------------------ C24
\* A meaningful difference between two entry lists, in the claim's words: a
\* different number of entries, or a position whose id, start or end differs.
DiffersMeaningfully(step) ==
    \/ Len(step.before) # Len(step.after)
    \/ \E k \in 1..Len(step.before) :
          \/ step.before[k].id # step.after[k].id
          \/ step.before[k].start # step.after[k].start
          \/ step.before[k].end # step.after[k].end

\* C24: without single_operation every undo but the last left the entry
\* list without a meaningful difference (no undo follows the first
\* meaningful one), each comparison is between the lists before and after
\* one undo, and a command that ends before the limit without an error ends
\* on a meaningful difference; with single_operation exactly one undo runs.
C24_RepeatsUntilMeaningfulChange ==
    undo_run # None =>
        LET r == undo_run[1]
            n == Len(r.steps)
        IN IF r.single_operation
           THEN r.undos = 1 /\ n <= 1
           ELSE /\ \A k \in 1..(n - 1) :
                      /\ ~DiffersMeaningfully(r.steps[k])
                      /\ r.steps[k + 1].before = r.steps[k].after
                /\ (r.raised = None /\ r.undos < MaxUndoAttempts) =>
                      /\ n = r.undos
                      /\ DiffersMeaningfully(r.steps[n])
                /\ r.raised # None => n = r.undos - 1

\* Three undos: two that changed tags or an annotation, then one that
\* changed the times.
C24_Witness ==
    /\ undo_run # None
    /\ ~undo_run[1].single_operation
    /\ undo_run[1].undos = 3
    /\ Len(undo_run[1].steps) = 3
    /\ undo_run[1].steps[1].before # undo_run[1].steps[1].after
    /\ undo_run[1].steps[2].before # undo_run[1].steps[2].after
    /\ DiffersMeaningfully(undo_run[1].steps[3])

\* A single_operation undo that changed only a tag or an annotation, and one
\* that changed the times.
C24_SingleReached ==
    /\ undo_run # None
    /\ undo_run[1].single_operation
    /\ Len(undo_run[1].steps) = 1
    /\ ~DiffersMeaningfully(undo_run[1].steps[1])
    /\ undo_run[1].steps[1].before # undo_run[1].steps[1].after

\* ------------------------------------------------------------ C25
\* The `timew start` commands among the commands of a start command.
StartsIssued(run) == SelectSeq(run.commands, LAMBDA c : c[1] = "start")
AnnotatesIssued(run) == SelectSeq(run.commands, LAMBDA c : c[1] = "annotate")

C25_StartIssuedAtMostTwice ==
    start_run # None =>
        /\ Len(StartsIssued(start_run[1])) <= 2
        /\ Len(StartsIssued(start_run[1])) = 2 =>
              Len(start_run[1].commands[1]) = 3

\* ------------------------------------------------------------ C26
\* C26: an import-all step (the only steps that leave timewarrior's
\* intervals alone) with dry_run leaves the database unchanged, and so does
\* one without force and dry_run on a database that has rows, which does
\* not run `timew export` either.
C26_DryRunAndExistingDataLeaveDb ==
    [][(timew' = timew /\ import_run' # None) =>
          /\ import_run'[1].dry_run => db' = db
          /\ (~import_run'[1].force /\ ~import_run'[1].dry_run /\ db # {}) =>
                /\ db' = db
                /\ ~import_run'[1].queried]_vars

\* A dry run that parsed entries and left the database empty.
C26_Witness ==
    /\ import_run # None
    /\ import_run[1].dry_run
    /\ import_run[1].queried
    /\ import_run[1].parsed # None
    /\ import_run[1].parsed[1].total_entries > 0
    /\ db = {}

\* An import that stopped at the existing rows, with intervals that are not
\* in the database.
C26_ExistingDataReached ==
    /\ import_run # None
    /\ ~import_run[1].dry_run
    /\ ~import_run[1].force
    /\ import_run[1].existing_count # None
    /\ import_run[1].existing_count[1] > 0
    /\ ~import_run[1].queried
    /\ Cardinality(db) < Len(timew)

\* ------------------------------------------------------------ C27
\* A raw record that can be converted to an interval: it has an id and a
\* start, and its timestamps are in timewarrior's format.
Convertible(record) ==
    IF from_dict(record).error # None THEN FALSE
    ELSE WellFormed(from_dict(record).entry[1])

\* The record is in the cache under the local date of its start.
StoredUnderStartDate(record) ==
    \E r \in db :
        /\ r.id = record.id[1]
        /\ r.start_time = record.start[1].minutes
        /\ r.date = DateOf(record.start[1].minutes + tz)

\* The latest import-all reached its store loop.
ImportStored ==
    /\ import_run # None
    /\ import_run[1].queried
    /\ ~import_run[1].dry_run
    /\ import_run[1].parsed # None

\* C27: after an import-all that stored, every record of the export that
\* can be converted is in the cache under its local start date, the entry
\* count is the number of convertible records, and there is one warning for
\* each record that cannot be converted.
C27_BadRecordExcludedOthersStored ==
    ImportStored =>
        LET data == import_run[1].data
            good == SelectSeq(data, Convertible)
        IN /\ \A n \in 1..Len(good) : StoredUnderStartDate(good[n])
           /\ import_run[1].parsed[1].total_entries = Len(good)
           /\ import_run[1].parsed[1].warnings = Len(data) - Len(good)

\* What the code keeps: a record without id or start, or with a start that
\* cannot be read, is left out with a warning and is not counted; the
\* records of every date whose store did not fail are in the cache under
\* that date.
C27_UnreadableStartExcluded ==
    ImportStored =>
        LET data == import_run[1].data
            read == SelectSeq(data, ParsesByDate)
            failed == {import_run[1].failed[a].date :
                          a \in 1..Len(import_run[1].failed)}
        IN /\ import_run[1].parsed[1].total_entries = Len(read)
           /\ import_run[1].parsed[1].warnings = Len(data) - Len(read)
           /\ \A n \in 1..Len(read) :
                 DateOf(read[n].start[1].minutes + tz) \notin failed =>
                     StoredUnderStartDate(read[n])

\* An import whose export holds a record with an unreadable start next to
\* records that were stored.
C27_WarningReached ==
    /\ ImportStored
    /\ import_run[1].parsed[1].warnings = 1
    /\ import_run[1].imported_count >= 1
    /\ import_run[1].failed = <<>>

\* An import in which a record with an unreadable end was grouped and
\* counted without a warning, and a convertible record of the same date is
\* not in the cache.
C27_ConvertibleRecordLostReached ==
    /\ ImportStored
    /\ import_run[1].parsed[1].warnings = 0
    /\ import_run[1].failed # <<>>
    /\ \E n \in 1..Len(import_run[1].data) :
          /\ Convertible(import_run[1].data[n])
          /\ ~StoredUnderStartDate(import_run[1].data[n])

\* ------------------------------------------------------------ C28
\* No two entries of the list have the same id.
DistinctIds(es) ==
    \A m \in 1..Len(es), n \in 1..Len(es) : es[m].id = es[n].id => m = n

\* C28: the list report-generate hands to the report generator holds no two
\* entries with the same id, whether it came from the cache or from the day
\* exports.
C28_NoDuplicateIdsToGenerator ==
    (cmd # None /\ cmd[1].generator # None) => DistinctIds(all_entries)

\* What the code keeps: the list merged from the day exports has distinct
\* ids.
C28_ExportPathDistinctIds ==
    (cmd # None /\ cmd[1].generator # None /\ cmd[1].exports > 0) =>
        DistinctIds(all_entries)

\* The export path with an interval that two day exports return.
C28_ExportMergeReached ==
    /\ cmd # None
    /\ cmd[1].exports > 0
    /\ Len(exported) > Len(all_entries)

\* ------------------------------------------------------------ C29
\* The (daily report, tag summary) positions whose bucket holds e.
DayBucketsHolding(r, e) ==
    {<<a, b>> \in (1..Len(r.daily_reports)) \X (1..MaxEntries + 1) :
        IF b > Len(r.daily_reports[a].tag_summaries) THEN FALSE
        ELSE InSeq(e, r.daily_reports[a].tag_summaries[b].entries)}

\* C29: in a Report every DailyReport has a tag summary, every tag summary
\* of a day has an entry, every tag of the range-wide summaries is the tag
\* of a summary of some day, and every input interval is in exactly one
\* (date, tag) day bucket and in the range-wide bucket of that tag.
C29_ReportStructure ==
    report # None =>
        /\ \A a \in 1..Len(Rep.daily_reports) :
              /\ Len(Rep.daily_reports[a].tag_summaries) >= 1
              /\ \A b \in 1..Len(Rep.daily_reports[a].tag_summaries) :
                    Len(Rep.daily_reports[a].tag_summaries[b].entries) >= 1
        /\ \A w \in 1..Len(Rep.weekly_summaries) :
              \E a \in 1..Len(Rep.daily_reports) :
                 \E b \in 1..Len(Rep.daily_reports[a].tag_summaries) :
                    Rep.daily_reports[a].tag_summaries[b].tag
                      = Rep.weekly_summaries[w].tag
        /\ \A i \in 1..Len(entries) :
              /\ Cardinality(DayBucketsHolding(Rep, entries[i])) = 1
              /\ \A ab \in DayBucketsHolding(Rep, entries[i]) :
                    \E w \in 1..Len(Rep.weekly_summaries) :
                       /\ Rep.weekly_summaries[w].tag
                            = Rep.daily_reports[ab[1]].tag_summaries[ab[2]].tag
                       /\ InSeq(entries[i], Rep.weekly_summaries[w].entries)

\* A Report with two days, two tags on one of them, and a tag that is on
\* both days.
C29_Witness ==
    /\ report # None
    /\ Len(Rep.daily_reports) >= 2
    /\ \E a \in 1..Len(Rep.daily_reports) :
          Len(Rep.daily_reports[a].tag_summaries) >= 2
    /\ \E a \in 1..Len(Rep.daily_reports), c \in 1..Len(Rep.daily_reports) :
          /\ a # c
          /\ \E b \in 1..Len(Rep.daily_reports[a].tag_summaries),
                d \in 1..Len(Rep.daily_reports[c].tag_summaries) :
                Rep.daily_reports[a].tag_summaries[b].tag
                  = Rep.daily_reports[c].tag_summaries[d].tag

\* ------------------------------------------------------------ C30
\* The date an interval is attributed to, and whether it lies in the
\* requested range (an absent end_date bounds nothing).
AttributionDate(e) ==
    IF e.date = None THEN args[1].start_date ELSE e.date[1]

InRange(d) ==
    /\ args[1].start_date <= d
    /\ args[1].end_date # None => d <= args[1].end_date[1]

\* C30: every DailyReport date lies within [start_date, end_date], and an
\* interval attributed to a date outside the range is in no day bucket and
\* in no range-wide bucket.
C30_DailyDatesWithinRange ==
    report # None =>
        /\ \A a \in 1..Len(Rep.daily_reports) :
              InRange(Rep.daily_reports[a].date)
        /\ \A i \in 1..Len(entries) :
              ~InRange(AttributionDate(entries[i])) =>
                  /\ ~InSeq(entries[i], DayBucketEntries(Rep))
                  /\ ~InSeq(entries[i], WeekBucketEntries(Rep))

\* What holds instead: the DailyReport dates are exactly the attribution
\* dates of the input intervals, inside the range or not, and an interval
\* attributed to a date outside the range has the DailyReport of that date
\* and is in a range-wide bucket.
C30_DailyDatesAreAttributionDates ==
    report # None =>
        /\ {Rep.daily_reports[a].date : a \in 1..Len(Rep.daily_reports)}
             = {AttributionDate(entries[i]) : i \in 1..Len(entries)}
        /\ \A i \in 1..Len(entries) :
              ~InRange(AttributionDate(entries[i])) =>
                  /\ \E a \in 1..Len(Rep.daily_reports) :
                        /\ Rep.daily_reports[a].date
                             = AttributionDate(entries[i])
                        /\ \E b \in 1..Len(Rep.daily_reports[a].tag_summaries) :
                              InSeq(entries[i],
                                    Rep.daily_reports[a].tag_summaries[b].entries)
                  /\ InSeq(entries[i], WeekBucketEntries(Rep))

\* A Report for the range of day 0 to day 2 over an interval dated day 3,
\* next to an interval inside the range.
C30_Witness ==
    /\ report # None
    /\ args[1].end_date # None
    /\ \E i \in 1..Len(entries) : ~InRange(AttributionDate(entries[i]))
    /\ \E i \in 1..Len(entries) : InRange(AttributionDate(entries[i]))
    /\ \E a \in 1..Len(Rep.daily_reports) : ~InRange(Rep.daily_reports[a].date)

====
